---- MODULE Spec2Model ----
(***************************************************************************)
(* A model of cclp (FredvanRijswijk/cclp): the path decoder and project    *)
(* scanner (scanner part of src/src/frecency.ts), the usage record parser  *)
(* (src/src/parser.ts) and the statistics cache (src/src/cache.ts).        *)
(*                                                                         *)
(* Strings are sequences of one-character strings, so that split, join,    *)
(* slice and startsWith are computed as the code computes them.            *)
(***************************************************************************)
EXTENDS Integers, Sequences, FiniteSets, TLC

VARIABLES
    fs,         \* the directories that exist on disk (absolute paths)
    rootExists, \* whether the scan root can be listed
    entries,    \* the listing of the scan root, in readdir order
    decoded,    \* the last decodePath call: its argument and its result
    projects,   \* the last scanProjects call: its result
    dirListable,\* whether the project's storage directory can be listed
    files,      \* the listing of the project's storage directory
    parsed,     \* the last parseProject call: its result
    now,        \* Date.now(), in milliseconds
    rootMtime,  \* mtimeMs of the scan root, while it exists
    cacheFile,  \* ~/.cclp/cache.json
    stored,     \* the last setCache call: its argument
    loaded,     \* the last getCached call: its result
    cleared,    \* the last clearCache call: its result
    clock,      \* Date.now() as the launch history takes it, in seconds
    history,    \* ~/.cclp/history.json
    launchLog,  \* every launch recorded so far, oldest first
    config,     \* ~/.cclp/config.json
    scored,     \* the last calculateFrecency call: its argument and result
    ranked,     \* the last sortByFrecency call: its arguments and result
    got,        \* the last getStats call: its options and result
    run,        \* the last command: what it did
    summaries,  \* ~/.cclp/summaries: the document in each file
    summarized, \* the last getOrGenerateSummary call: its state and result
    costed,     \* the last calculateCost call: its arguments and result
    launching,  \* concurrent recordLaunch invocations and the finished ones
    getting,    \* concurrent getStats invocations and what they left
    parsing,    \* the last parseAllProjects call: its parseProject calls
    select      \* the vimSelect prompt: its choices, active index and status

scanVars == <<fs, rootExists, entries, decoded, projects>>
parseVars == <<dirListable, files, parsed>>
cacheVars == <<now, rootMtime, cacheFile, stored, loaded, cleared>>
histVars == <<clock, history, launchLog, config, scored, ranked>>
cliVars == <<clock, history, launchLog, config, scored, ranked, got, run>>
summaryVars == <<summaries, summarized>>
\* The state of the summaries, of concurrent invocations, of the prompt and
\* of the pricing.
notSummaryVars == <<costed, launching, getting, parsing, select>>
notCostVars == <<summaryVars, launching, getting, parsing, select>>
notLaunchVars == <<summaryVars, costed, getting, parsing, select>>
notGetVars == <<summaryVars, costed, launching, parsing, select>>
notParsingVars == <<summaryVars, costed, launching, getting, select>>
notSelectVars == <<summaryVars, costed, launching, getting, parsing>>
moreVars == <<summaryVars, costed, launching, getting, parsing, select>>
\* The state of the scanner, the parser, the cache and the commands.
coreVars == <<scanVars, parseVars, cacheVars, cliVars>>
\* The same without the clock and the file of the launch history.
coreUnlessHistory == <<scanVars, parseVars, cacheVars, launchLog, config,
                       scored, ranked, got, run>>
vars == <<fs, rootExists, entries, decoded, projects, dirListable, files, parsed,
          now, rootMtime, cacheFile, stored, loaded,
          cleared, clock, history, launchLog, config, scored, ranked, got, run,
          moreVars>>

----------------------------------------------------------------------------
(* Bounds of the model *)

\* Most name parts (letters between separators) in one path on disk.
MaxParts == 3
\* Most mkdir -p calls that build the disk.
MaxDirs == 3
\* Most entries in the scan root.
MaxEntries == 2
\* Most name parts in the name of a scan-root entry, and in the paths on
\* disk when the scan root is scanned.
MaxEntryParts == 2
\* Most directories on disk when the scan root is scanned.
MaxScanDirs == 2
\* Most files in a project's storage directory.
MaxFiles == 2
\* Most record lines in a project's storage directory, over all its files.
MaxLines == 3
\* Most single milliseconds the clock advances by within one TTL window.
MaxDrift == 1
\* Most whole TTL windows the clock advances by.
MaxSpans == 1
\* Most projects in a statistics collection handed to setCache.
MaxProjects == 1
\* Most launches the commands record, and most launches recorded before
\* projects are scored or ranked.
MaxLaunches == 2
\* Most projects in a collection that is ranked.
MaxRanked == 4
\* Most single milliseconds the clock advances by around a summary's
\* maximum age.
MaxTicks == 1
\* Most characters the claude process writes.
MaxOutput == 1
\* Most claude processes spawned for summaries.
MaxSpawns == 2
\* Most tokens in one counter of a usage that is priced.
MaxTokens == 2
\* Most projects handed to parseAllProjects.
MaxTasks == 2
\* Most choices in the prompt, and most keys pressed in it.
MaxChoices == 2
MaxKeys == 3
\* Most launches of the busy project beyond the launches that are kept.
MaxOverflow == 2
\* Most launches of a project other than the busy one, when launches alone
\* are recorded.
MaxOther == 1

\* The name parts of the paths on disk: part i of every path is PartNames[i],
\* so that paths differ in how their parts are grouped and joined.
PartNames == <<"a", "b", "c", "d", "e">>

----------------------------------------------------------------------------
(* Strings *)

\* null, the result of a search that failed; never equal to a path.
NULL == <<"null">>
\* The values of the result variables before any call.
NoDecode == [called |-> FALSE, encoded |-> <<>>, result |-> NULL]
NoScan == [called |-> FALSE, list |-> <<>>]

\* String.prototype.split on a one-character separator.
RECURSIVE split(_, _)
split(s, sep) ==
    IF \A i \in 1..Len(s) : s[i] # sep
    THEN <<s>>
    ELSE LET i == CHOOSE k \in 1..Len(s) :
                      s[k] = sep /\ \A j \in 1..(k - 1) : s[j] # sep
         IN  <<SubSeq(s, 1, i - 1)>> \o split(SubSeq(s, i + 1, Len(s)), sep)

\* Array.prototype.join with a one-character separator.
RECURSIVE join(_, _)
join(parts, sep) ==
    IF Len(parts) = 0 THEN <<>>
    ELSE IF Len(parts) = 1 THEN parts[1]
    ELSE parts[1] \o <<sep>> \o join(Tail(parts), sep)

\* slice(from, to) of an array or string, zero-based, to exclusive.
slice(s, from, to) == SubSeq(s, from + 1, to)

\* The encoding of a path as a scan-root entry name: every "/" becomes "-".
encodePath(path) == [i \in 1..Len(path) |-> IF path[i] = "/" THEN "-" ELSE path[i]]

----------------------------------------------------------------------------
(* The path decoder *)

\* stat(path) succeeds: the root always exists, a directory when it was made.
exists(path, disk) == path = <<"/">> \/ path \in disk

RECURSIVE findPath(_, _, _, _), findPathFrom(_, _, _, _, _)

\* findPathFrom with a fault: the first segment found on disk is settled on,
\* and a dead end below it ends the search.
findPathFromCommitted(parts, idx, end, currentPath, disk) ==
    IF end > Len(parts) THEN NULL
    ELSE
      LET segmentParts == slice(parts, idx, end)
          hyphenPath == currentPath \o <<"/">> \o join(segmentParts, "-")
          underscorePath == currentPath \o <<"/">> \o join(segmentParts, "_")
      IN  IF exists(hyphenPath, disk)
          THEN findPath(parts, end, hyphenPath, disk)
          ELSE IF Len(segmentParts) > 1 /\ exists(underscorePath, disk)
          THEN findPath(parts, end, underscorePath, disk)
          ELSE findPathFrom(parts, idx, end + 1, currentPath, disk)

\* findPathFrom with a fault: the underscore variant of a segment is tried
\* before the hyphen variant.
findPathFromUnderscoreFirst(parts, idx, end, currentPath, disk) ==
    IF end > Len(parts) THEN NULL
    ELSE
      LET segmentParts == slice(parts, idx, end)
          hyphenPath == currentPath \o <<"/">> \o join(segmentParts, "-")
          underscorePath == currentPath \o <<"/">> \o join(segmentParts, "_")
          viaHyphen ==
              IF exists(hyphenPath, disk)
              THEN findPath(parts, end, hyphenPath, disk) ELSE NULL
          viaUnderscore ==
              IF Len(segmentParts) > 1 /\ exists(underscorePath, disk)
              THEN findPath(parts, end, underscorePath, disk) ELSE NULL
      IN  IF viaUnderscore # NULL THEN viaUnderscore
          ELSE IF viaHyphen # NULL THEN viaHyphen
          ELSE findPathFrom(parts, idx, end + 1, currentPath, disk)

\* The for loop of findPath, from the value end of its loop variable on.
findPathFrom(parts, idx, end, currentPath, disk) ==
    IF end > Len(parts) THEN NULL
    ELSE
      LET segmentParts == slice(parts, idx, end)
          hyphenPath == currentPath \o <<"/">> \o join(segmentParts, "-")
          underscorePath == currentPath \o <<"/">> \o join(segmentParts, "_")
          viaHyphen ==
              IF exists(hyphenPath, disk)
              THEN findPath(parts, end, hyphenPath, disk) ELSE NULL
          viaUnderscore ==
              IF Len(segmentParts) > 1 /\ exists(underscorePath, disk)
              THEN findPath(parts, end, underscorePath, disk) ELSE NULL
      IN  IF viaHyphen # NULL THEN viaHyphen
          ELSE IF viaUnderscore # NULL THEN viaUnderscore
          ELSE findPathFrom(parts, idx, end + 1, currentPath, disk)

\* findPath with a fault: the loop runs from the longest segment to the
\* shortest.
RECURSIVE findPathDownFrom(_, _, _, _, _)
findPathDownFrom(parts, idx, end, currentPath, disk) ==
    IF end <= idx THEN NULL
    ELSE
      LET segmentParts == slice(parts, idx, end)
          hyphenPath == currentPath \o <<"/">> \o join(segmentParts, "-")
          underscorePath == currentPath \o <<"/">> \o join(segmentParts, "_")
          viaHyphen ==
              IF exists(hyphenPath, disk)
              THEN findPath(parts, end, hyphenPath, disk) ELSE NULL
          viaUnderscore ==
              IF Len(segmentParts) > 1 /\ exists(underscorePath, disk)
              THEN findPath(parts, end, underscorePath, disk) ELSE NULL
      IN  IF viaHyphen # NULL THEN viaHyphen
          ELSE IF viaUnderscore # NULL THEN viaUnderscore
          ELSE findPathDownFrom(parts, idx, end - 1, currentPath, disk)

findPathLongestFirst(parts, idx, currentPath, disk) ==
    IF idx >= Len(parts)
    THEN IF exists(currentPath, disk) THEN currentPath ELSE NULL
    ELSE findPathDownFrom(parts, idx, Len(parts), currentPath, disk)

findPath(parts, idx, currentPath, disk) ==
    IF idx >= Len(parts)
    THEN IF exists(currentPath, disk) THEN currentPath ELSE NULL
    ELSE findPathFrom(parts, idx, idx + 1, currentPath, disk)

\* decodePath with a fault: the leading "-" of the name is not removed.
decodePathKeepLeading(encoded, disk) ==
    findPath(split(encoded, "-"), 0, <<>>, disk)

\* decodePath with a fault: when the search fails, every "-" is taken for a
\* path separator.
decodePathGuess(encoded, disk) ==
    LET parts == split(slice(encoded, 1, Len(encoded)), "-")
        found == findPath(parts, 0, <<>>, disk)
    IN  IF found # NULL THEN found ELSE <<"/">> \o join(parts, "/")

decodePath(encoded, disk) ==
    LET parts == split(slice(encoded, 1, Len(encoded)), "-")
    IN  findPath(parts, 0, <<>>, disk)

\* startsWith for a one-character prefix.
startsWith(s, ch) == Len(s) > 0 /\ s[1] = ch

getProjectName(path) ==
    LET parts == SelectSeq(split(path, "/"), LAMBDA x : Len(x) > 0)
    IN  IF Len(parts) > 0 THEN parts[Len(parts)] ELSE path

\* The for loop of scanProjects from entry i on, projects being the array
\* built so far. An entry is [name, kind]: kind "dir" is a directory, "file"
\* is not one, and stat throws on "broken" (a dangling link, a vanished
\* entry), which leaves the loop for the catch around it.
RECURSIVE scanEntries(_, _, _, _)
scanEntries(listing, i, found, disk) ==
    IF i > Len(listing) THEN found
    ELSE IF startsWith(listing[i].name, ".")
    THEN scanEntries(listing, i + 1, found, disk)
    ELSE IF listing[i].kind = "broken" THEN found
    ELSE IF listing[i].kind # "dir"
    THEN scanEntries(listing, i + 1, found, disk)
    ELSE LET decodedPath == decodePath(listing[i].name, disk)
         IN  IF decodedPath # NULL
             THEN scanEntries(listing, i + 1,
                      Append(found, [name |-> getProjectName(decodedPath),
                                     path |-> decodedPath,
                                     encodedPath |-> listing[i].name]),
                      disk)
             ELSE scanEntries(listing, i + 1, found, disk)

\* scanProjects: readdir throws when the scan root cannot be listed.
scanProjects(listable, listing, disk) ==
    IF listable THEN scanEntries(listing, 1, <<>>, disk) ELSE <<>>

----------------------------------------------------------------------------
(* The usage record parser *)

\* Dates: null, an Invalid Date, or a time value in milliseconds.
NullDate == [kind |-> "null", t |-> 0]
InvalidDate == [kind |-> "invalid", t |-> 0]
DateOf(t) == [kind |-> "date", t |-> t]

\* The timestamp field of a record: absent, a string that is no date, or the
\* ISO-8601 text of a time value.
NoTimestamp == [kind |-> "none", t |-> 0]
BadTimestamp == [kind |-> "bad", t |-> 0]
IsoString(t) == [kind |-> "iso", t |-> t]

\* new Date(string).
newDate(text) == IF text.kind = "iso" THEN DateOf(text.t) ELSE InvalidDate

\* a < b on two Date objects: false when either is an Invalid Date (NaN).
dateLess(a, b) == a.kind = "date" /\ b.kind = "date" /\ a.t < b.t

\* A token field that the record does not carry.
MISSING == -1
\* field || 0
orZero(field) == IF field = MISSING THEN 0 ELSE field

EmptyStats(project) ==
    [project |-> project,
     sessions |-> 0,
     firstActivity |-> NullDate,
     lastActivity |-> NullDate,
     usage |-> [inputTokens |-> 0, outputTokens |-> 0,
                cacheCreationInputTokens |-> 0, cacheReadInputTokens |-> 0]]

\* The body of the loop over lines. A line is [json, timestamp, usage]: json
\* is whether JSON.parse accepts it; usage is [present, input_tokens, ...].
parseLine(stats, line) ==
    IF ~line.json THEN stats
    ELSE
      LET ts == newDate(line.timestamp)
          tracked ==
              IF line.timestamp.kind = "none" THEN stats
              ELSE [stats EXCEPT
                      !.firstActivity =
                          IF stats.firstActivity = NullDate
                             \/ dateLess(ts, stats.firstActivity)
                          THEN ts ELSE @,
                      !.lastActivity =
                          IF stats.lastActivity = NullDate
                             \/ dateLess(stats.lastActivity, ts)
                          THEN ts ELSE @]
      IN  IF ~line.usage.present THEN tracked
          ELSE [tracked EXCEPT
                  !.usage.inputTokens = @ + orZero(line.usage.input_tokens),
                  !.usage.outputTokens = @ + orZero(line.usage.output_tokens),
                  !.usage.cacheCreationInputTokens =
                      @ + orZero(line.usage.cache_creation_input_tokens),
                  !.usage.cacheReadInputTokens =
                      @ + orZero(line.usage.cache_read_input_tokens)]

RECURSIVE parseLines(_, _, _)

\* parseLines with a fault: a line that is not JSON ends the file.
parseLinesUntilMalformed(stats, lines, i) ==
    IF i > Len(lines) THEN stats
    ELSE IF ~lines[i].json THEN stats
    ELSE parseLines(parseLine(stats, lines[i]), lines, i + 1)

\* The loop over the lines of one file, from line i on.
parseLines(stats, lines, i) ==
    IF i > Len(lines) THEN stats
    ELSE parseLines(parseLine(stats, lines[i]), lines, i + 1)

\* The loop over the record files, from file i on. A file is [jsonl,
\* readable, lines]; readFile throws on a file that is not readable, which
\* leaves the loop for the catch around it.
RECURSIVE parseFiles(_, _, _)
parseFiles(stats, jsonlFiles, i) ==
    IF i > Len(jsonlFiles) THEN stats
    ELSE IF ~jsonlFiles[i].readable THEN stats
    ELSE parseFiles(parseLines(stats, jsonlFiles[i].lines, 1), jsonlFiles, i + 1)

\* parseProject: readdir throws when the directory cannot be listed.
parseProject(project, listable, listing) ==
    IF ~listable THEN EmptyStats(project)
    ELSE LET jsonlFiles == SelectSeq(listing, LAMBDA f : f.jsonl)
         IN  parseFiles([EmptyStats(project) EXCEPT !.sessions = Len(jsonlFiles)],
                        jsonlFiles, 1)

\* The project whose records are parsed.
SampleProject ==
    [name |-> <<"a">>, path |-> <<"/", "a">>, encodedPath |-> <<"-", "a">>]

\* The value of the result variable before any call.
NoParse == [called |-> FALSE, stats |-> EmptyStats(SampleProject)]

----------------------------------------------------------------------------
(* The statistics cache *)

CACHE_TTL_MS == 5 * 60 * 1000

\* The content of cache.json: no file, a file that is not JSON, or the
\* CacheData that setCache wrote, read back by JSON.parse.
NoFile ==
    [kind |-> "missing", timestamp |-> 0, projectsDirMtime |-> 0, stats |-> <<>>]
UnparseableFile ==
    [kind |-> "unparseable", timestamp |-> 0, projectsDirMtime |-> 0, stats |-> <<>>]
CacheData(timestamp, mtime, stats) ==
    [kind |-> "data", timestamp |-> timestamp, projectsDirMtime |-> mtime,
     stats |-> stats]

\* The values of the result variables before any call.
NoStore == [called |-> FALSE, stats |-> <<>>]
NoLoad == [called |-> FALSE, hit |-> FALSE, stats |-> <<>>]

\* getProjectsDirMtime: 0 when stat throws.
getProjectsDirMtime(rootThere, mtime) == IF rootThere THEN mtime ELSE 0

\* date?.toISOString() ?? null: toISOString throws a RangeError on an
\* Invalid Date.
RangeError == [kind |-> "RangeError", t |-> 0]
toISOString(date) ==
    IF date.kind = "null" THEN NullDate
    ELSE IF date.kind = "date" THEN IsoString(date.t)
    ELSE RangeError

serialize(stats) ==
    [i \in 1..Len(stats) |->
        [project |-> stats[i].project,
         sessions |-> stats[i].sessions,
         firstActivity |-> toISOString(stats[i].firstActivity),
         lastActivity |-> toISOString(stats[i].lastActivity),
         usage |-> stats[i].usage]]

\* serialize(stats) throws.
serializeThrows(stats) ==
    \E i \in 1..Len(stats) :
        RangeError \in {serialize(stats)[i].firstActivity,
                        serialize(stats)[i].lastActivity}

\* text ? new Date(text) : null
fromISOString(text) == IF text.kind = "null" THEN NullDate ELSE newDate(text)

deserialize(data) ==
    [i \in 1..Len(data) |->
        [project |-> data[i].project,
         sessions |-> data[i].sessions,
         firstActivity |-> fromISOString(data[i].firstActivity),
         lastActivity |-> fromISOString(data[i].lastActivity),
         usage |-> data[i].usage]]

\* getCached with a fault: an envelope exactly as old as the TTL is stale.
getCachedStaleAtTTL(file, time, currentMtime) ==
    IF file.kind # "data" THEN [called |-> TRUE, hit |-> FALSE, stats |-> <<>>]
    ELSE IF time - file.timestamp >= CACHE_TTL_MS
    THEN [called |-> TRUE, hit |-> FALSE, stats |-> <<>>]
    ELSE IF currentMtime # file.projectsDirMtime
    THEN [called |-> TRUE, hit |-> FALSE, stats |-> <<>>]
    ELSE [called |-> TRUE, hit |-> TRUE, stats |-> deserialize(file.stats)]

\* getCached: null (hit FALSE) when readFile or JSON.parse throws, when the
\* envelope is older than the TTL, and when the scan root's mtime differs.
getCached(file, time, currentMtime) ==
    IF file.kind # "data" THEN [called |-> TRUE, hit |-> FALSE, stats |-> <<>>]
    ELSE IF time - file.timestamp > CACHE_TTL_MS
    THEN [called |-> TRUE, hit |-> FALSE, stats |-> <<>>]
    ELSE IF currentMtime # file.projectsDirMtime
    THEN [called |-> TRUE, hit |-> FALSE, stats |-> <<>>]
    ELSE [called |-> TRUE, hit |-> TRUE, stats |-> deserialize(file.stats)]

\* setCache: the file it leaves. When serialize throws nothing is written.
setCache(file, stats, time, currentMtime) ==
    IF serializeThrows(stats) THEN file
    ELSE CacheData(time, currentMtime, serialize(stats))

\* clearCache with a fault: it reports a deletion whatever unlink did.
clearCacheAlwaysTrue(file) == [file |-> NoFile, result |-> TRUE]

\* clearCache: unlink removes cache.json, whatever it holds, and the result
\* is true; unlink throws when there is no file, and the result is false.
clearCache(file) == [file |-> NoFile, result |-> file.kind # "missing"]

NoClear == [called |-> FALSE, result |-> FALSE]

----------------------------------------------------------------------------
(* The launch history and the frecency score *)

\* Decay weights, index 1 = last hour, 2 = last day, 3 = last week,
\* 4 = last month, 5 = older.
DECAY_WEIGHTS == <<100, 70, 50, 30, 10>>

\* BUCKETS_MS, counted in seconds: TLC's integers have 32 bits, which a
\* month of milliseconds does not fit. The launch history's clock and its
\* timestamps are counted in seconds too, so an age is below a bucket in
\* the model exactly when it is in milliseconds.
BUCKETS ==
    <<60 * 60,
      24 * 60 * 60,
      7 * 24 * 60 * 60,
      30 * 24 * 60 * 60>>

\* The launches kept for one project.
KeptLaunches == 100

\* The content of history.json: no file, a file that is not JSON, or the
\* HistoryData that saveHistory wrote. launches maps a path to its
\* timestamps; its domain is the object's keys.
NoLaunches == [p \in {} |-> <<>>]
NoHistory == [kind |-> "missing", launches |-> NoLaunches]
UnparseableHistory == [kind |-> "unparseable", launches |-> NoLaunches]
HistoryData(launches) == [kind |-> "data", launches |-> launches]

\* loadHistory: { launches: {} } when readFile or JSON.parse throws.
loadHistory(file) == IF file.kind = "data" THEN file.launches ELSE NoLaunches

\* array.slice(start), start taken from the end when it is negative.
sliceFrom(s, start) ==
    LET from == IF start < 0
                THEN (IF Len(s) + start < 0 THEN 0 ELSE Len(s) + start)
                ELSE (IF start > Len(s) THEN Len(s) ELSE start)
    IN  slice(s, from, Len(s))

\* recordLaunch with a fault: the trim keeps the oldest launches.
recordLaunchKeepsOldest(file, projectPath, time) ==
    LET launches == loadHistory(file)
        old == IF projectPath \in DOMAIN launches THEN launches[projectPath]
               ELSE <<>>
        pushed == Append(old, time)
        kept == IF Len(pushed) > KeptLaunches
                THEN slice(pushed, 0, KeptLaunches) ELSE pushed
    IN  HistoryData([p \in DOMAIN launches \cup {projectPath} |->
                        IF p = projectPath THEN kept ELSE launches[p]])

\* recordLaunch with a fault: the document saved holds the new launch only.
recordLaunchForgets(file, projectPath, time) ==
    HistoryData([p \in {projectPath} |-> <<time>>])

\* recordLaunch: the file saveHistory leaves.
recordLaunch(file, projectPath, time) ==
    LET launches == loadHistory(file)
        old == IF projectPath \in DOMAIN launches THEN launches[projectPath]
               ELSE <<>>
        pushed == Append(old, time)
        kept == IF Len(pushed) > KeptLaunches
                THEN sliceFrom(pushed, -KeptLaunches) ELSE pushed
    IN  HistoryData([p \in DOMAIN launches \cup {projectPath} |->
                        IF p = projectPath THEN kept ELSE launches[p]])

\* A process that is not in recordLaunch, and the state before any launch:
\* pc "loaded" is a process between its loadHistory and its saveHistory.
IdleLaunch ==
    [pc |-> "idle", path |-> <<>>, document |-> NoHistory, time |-> 0,
     overlapped |-> FALSE]
NoLaunching == [procs |-> [p \in {1, 2} |-> IdleLaunch], log |-> <<>>]

\* An argument that is an array, and one that is undefined.
Array(items) == [defined |-> TRUE, items |-> items]
Undefined == [defined |-> FALSE, items |-> <<>>]

\* BUCKETS.findIndex((b) => age < b), the last weight's index for -1.
RECURSIVE findIndex(_, _)
findIndex(age, i) ==
    IF i > Len(BUCKETS) THEN Len(DECAY_WEIGHTS)
    ELSE IF age < BUCKETS[i] THEN i
    ELSE findIndex(age, i + 1)

\* The loop of calculateFrecency with a fault: an age of exactly a bucket's
\* length still counts for that bucket.
RECURSIVE scoreFromInclusive(_, _, _)
scoreFromInclusive(items, i, time) ==
    IF i > Len(items) THEN 0
    ELSE DECAY_WEIGHTS[findIndex(time - items[i] - 1, 1)]
         + scoreFromInclusive(items, i + 1, time)

\* The loop of calculateFrecency, from the i-th timestamp on.
RECURSIVE scoreFrom(_, _, _)
scoreFrom(items, i, time) ==
    IF i > Len(items) THEN 0
    ELSE DECAY_WEIGHTS[findIndex(time - items[i], 1)]
         + scoreFrom(items, i + 1, time)

calculateFrecency(timestamps, time) ==
    IF ~timestamps.defined \/ Len(timestamps.items) = 0 THEN 0
    ELSE scoreFrom(timestamps.items, 1, time)

getFrecencyScores(file, time) ==
    LET launches == loadHistory(file)
    IN  [p \in DOMAIN launches |-> calculateFrecency(Array(launches[p]), time)]

NoScores == [called |-> FALSE, timestamps |-> Undefined, time |-> 0, score |-> 0]

----------------------------------------------------------------------------
(* The ranking *)

\* frecencyScores[path] || 0
scoreOf(frecencyScores, path) ==
    IF path \in DOMAIN frecencyScores THEN frecencyScores[path] ELSE 0

\* The comparator with a fault: ties on the score are left as they are.
compareScoreOnly(a, b, frecencyScores) ==
    scoreOf(frecencyScores, b.project.path) - scoreOf(frecencyScores, a.project.path)

\* The comparator of sortByFrecency. A Date object is truthy also when it
\* is an Invalid Date; its getTime() is NaN then, and sort takes a NaN
\* result for +0.
compare(a, b, frecencyScores) ==
    LET scoreA == scoreOf(frecencyScores, a.project.path)
        scoreB == scoreOf(frecencyScores, b.project.path)
    IN  IF scoreA # scoreB THEN scoreB - scoreA
        ELSE IF a.lastActivity.kind = "null" THEN 1
        ELSE IF b.lastActivity.kind = "null" THEN -1
        ELSE IF a.lastActivity.kind = "invalid" \/ b.lastActivity.kind = "invalid"
        THEN 0
        ELSE b.lastActivity.t - a.lastActivity.t

\* Array.prototype.sort on a short array: the binary insertion of V8's
\* sort, which is stable. Indices count from 0 as in the engine.
RECURSIVE insertionPoint(_, _, _, _, _)
insertionPoint(a, pivot, left, right, frecencyScores) ==
    IF left >= right THEN left
    ELSE LET mid == left + ((right - left) \div 2)
         IN  IF compare(pivot, a[mid + 1], frecencyScores) < 0
             THEN insertionPoint(a, pivot, left, mid, frecencyScores)
             ELSE insertionPoint(a, pivot, mid + 1, right, frecencyScores)

RECURSIVE sortFrom(_, _, _)
sortFrom(a, start, frecencyScores) ==
    IF start >= Len(a) THEN a
    ELSE LET pivot == a[start + 1]
             left == insertionPoint(a, pivot, 0, start, frecencyScores)
             moved == [i \in 1..Len(a) |->
                          IF i <= left THEN a[i]
                          ELSE IF i = left + 1 THEN pivot
                          ELSE IF i <= start + 1 THEN a[i - 1]
                          ELSE a[i]]
         IN  sortFrom(moved, start + 1, frecencyScores)

\* sortByFrecency: a sorted copy.
sortByFrecency(stats, frecencyScores) == sortFrom(stats, 1, frecencyScores)

NoRanking == [called |-> FALSE, stats |-> <<>>, frecencyScores |-> NoLaunches,
              sorted |-> <<>>]

----------------------------------------------------------------------------
(* The preferences: the archived projects *)

\* The content of config.json: no file, or the Config that saveConfig
\* wrote. hasArchived is whether the object has the key archived.
NoConfig == [kind |-> "missing", hasArchived |-> FALSE, archived |-> <<>>]
ConfigData(cfg) ==
    [kind |-> "data", hasArchived |-> cfg.hasArchived, archived |-> cfg.archived]

\* loadConfig: {} when readFile or JSON.parse throws.
loadConfig(file) ==
    IF file.kind = "data"
    THEN [hasArchived |-> file.hasArchived, archived |-> file.archived]
    ELSE [hasArchived |-> FALSE, archived |-> <<>>]

\* array.includes(x)
includes(array, x) == \E i \in 1..Len(array) : array[i] = x

\* archiveProject with a fault: the path is pushed without the includes test.
archiveProjectAgain(file, path) ==
    LET cfg == loadConfig(file)
    IN  ConfigData([hasArchived |-> TRUE, archived |-> Append(cfg.archived, path)])

\* archiveProject: the file it leaves. It saves only when it pushed.
archiveProject(file, path) ==
    LET cfg == loadConfig(file)
        archived == IF cfg.hasArchived THEN cfg.archived ELSE <<>>
    IN  IF ~includes(archived, path)
        THEN ConfigData([hasArchived |-> TRUE, archived |-> Append(archived, path)])
        ELSE file

\* unarchiveProject: the file it leaves. It saves only when the config has
\* an archived list.
unarchiveProject(file, path) ==
    LET cfg == loadConfig(file)
    IN  IF cfg.hasArchived
        THEN ConfigData([hasArchived |-> TRUE,
                         archived |-> SelectSeq(cfg.archived, LAMBDA p : p # path)])
        ELSE file

\* filterArchived with a fault: nothing is filtered out.
filterArchivedNothing(stats, cfg) == stats

filterArchived(stats, cfg) ==
    IF ~cfg.hasArchived \/ Len(cfg.archived) = 0 THEN stats
    ELSE SelectSeq(stats, LAMBDA st : ~includes(cfg.archived, st.project.path))

----------------------------------------------------------------------------
(* Obtaining the statistics *)

\* parseAllProjects. The model keeps one listing of record files, which
\* the storage directory of every project holds.
parseAllProjects(found, listable, listing) ==
    [i \in 1..Len(found) |-> parseProject(found[i], listable, listing)]

\* The options of a command: cache is FALSE when --no-cache was given.
\* getStats() without an argument takes {}, whose cache is not false.
Opts(cache) == [cache |-> cache]
NoOpts == [cache |-> TRUE]

\* getStats with a fault: the fresh statistics are not stored.
getStatsNoStore(opts, file, time, rootThere, mtime, listing, disk, listable, records) ==
    LET currentMtime == getProjectsDirMtime(rootThere, mtime)
        cached == getCached(file, time, currentMtime)
        stats == parseAllProjects(scanProjects(rootThere, listing, disk),
                                  listable, records)
    IN  IF opts.cache /\ cached.hit
        THEN [called |-> TRUE, threw |-> FALSE, opts |-> opts, consulted |-> TRUE,
              fromCache |-> TRUE, stats |-> cached.stats, file |-> file]
        ELSE [called |-> TRUE, threw |-> FALSE, opts |-> opts,
              consulted |-> opts.cache, fromCache |-> FALSE, stats |-> stats,
              file |-> file]

\* getStats: what it returns (threw: it rejected, at setCache), whether it
\* consulted getCached, and the cache file it leaves.
getStats(opts, file, time, rootThere, mtime, listing, disk, listable, records) ==
    LET currentMtime == getProjectsDirMtime(rootThere, mtime)
        cached == getCached(file, time, currentMtime)
        stats == parseAllProjects(scanProjects(rootThere, listing, disk),
                                  listable, records)
    IN  IF opts.cache /\ cached.hit
        THEN [called |-> TRUE, threw |-> FALSE, opts |-> opts, consulted |-> TRUE,
              fromCache |-> TRUE, stats |-> cached.stats, file |-> file]
        ELSE [called |-> TRUE, threw |-> serializeThrows(stats), opts |-> opts,
              consulted |-> opts.cache, fromCache |-> FALSE, stats |-> stats,
              file |-> setCache(file, stats, time, currentMtime)]

NoStats == [called |-> FALSE, threw |-> FALSE, opts |-> NoOpts, consulted |-> FALSE,
            fromCache |-> FALSE, stats |-> <<>>, file |-> NoFile]

----------------------------------------------------------------------------
(* Matching a project by name, and the picker *)

\* string.toLowerCase(), on the letters the model's names are made of.
toLowerCase(str) ==
    [i \in 1..Len(str) |->
        IF str[i] = "A" THEN "a" ELSE IF str[i] = "B" THEN "b" ELSE str[i]]

\* string.includes(q)
includesString(str, q) ==
    \E i \in 0..(Len(str) - Len(q)) : SubSeq(str, i + 1, i + Len(q)) = q

\* array.find / array.filter(...)[0]: the first element that passes, as a
\* one-element sequence, or the empty sequence for none.
first(passing) == IF Len(passing) > 0 THEN <<passing[1]>> ELSE <<>>

\* fuzzyMatch with a fault: the first project stands in for no match.
fuzzyMatchFirst(found, query) ==
    LET q == toLowerCase(query)
        exact == first(SelectSeq(found, LAMBDA st : toLowerCase(st.project.name) = q))
        part == first(SelectSeq(found, LAMBDA st : includesString(toLowerCase(st.project.name), q)))
    IN  IF Len(exact) > 0 THEN exact
        ELSE IF Len(part) > 0 THEN part
        ELSE first(SelectSeq(found, LAMBDA st : TRUE))

\* fuzzyMatch: <<match>>, or <<>> for null.
fuzzyMatch(found, query) ==
    LET q == toLowerCase(query)
        exact == first(SelectSeq(found, LAMBDA st : toLowerCase(st.project.name) = q))
    IN  IF Len(exact) > 0 THEN exact
        ELSE first(SelectSeq(found, LAMBDA st : includesString(toLowerCase(st.project.name), q)))

\* What showPicker resolves with for a choice, as its caller reads it: the
\* action and the chosen statistics.
PickerResult(action, value) == [action |-> action, value |-> value]

\* showPicker with a fault: escape resolves with the active choice.
showPickerEscapeSelects(stats, frecencyScores, key, active) ==
    LET sorted == sortByFrecency(stats, frecencyScores)
    IN  IF Len(stats) = 0
        THEN [threw |-> FALSE, choices |-> <<>>, result |-> <<>>]
        ELSE [threw |-> FALSE, choices |-> sorted,
              result |-> <<PickerResult(IF key = "i" THEN "info" ELSE "select",
                                        sorted[active])>>]

\* showPicker: null for no projects; otherwise the prompt over the sorted
\* choices. key is what the user ends the prompt with, on the active-th
\* choice: "escape" (or ctrl-c) makes vimSelect throw CancelPromptError.
showPicker(stats, frecencyScores, key, active) ==
    LET sorted == sortByFrecency(stats, frecencyScores)
    IN  IF Len(stats) = 0
        THEN [threw |-> FALSE, choices |-> <<>>, result |-> <<>>]
        ELSE IF key = "escape"
        THEN [threw |-> TRUE, choices |-> sorted, result |-> <<>>]
        ELSE [threw |-> FALSE, choices |-> sorted,
              result |-> <<PickerResult(IF key = "i" THEN "info" ELSE "select",
                                        sorted[active])>>]

\* showTable's order: by last activity.
showTable(stats) == sortFrom(stats, 1, NoLaunches)

\* showRecent's rows.
showRecent(stats, frecencyScores, limit) ==
    slice(sortByFrecency(stats, frecencyScores), 0,
          IF limit > Len(stats) THEN Len(stats) ELSE limit)

\* What a command did: the project name and whether --no-cache was given
\* on its command line, the key that ended its prompt ("" for no prompt),
\* how it ended, the projects it put on the screen,
\* the path it handed to recordLaunch and the one it handed to launchClaude
\* (<<>> for none), and the exit status of its own (-1 while the process
\* goes on, as after launchClaude, whose child decides the status).
Outcome(command, name, noCache, ending, shown, recorded, launched, status) ==
    [command |-> command, name |-> name, noCache |-> noCache, key |-> "",
     ending |-> ending, shown |-> shown,
     recorded |-> recorded, launched |-> launched, status |-> status]

NoRun == Outcome("none", <<>>, FALSE, "none", <<>>, <<>>, <<>>, 0)

\* getStats rejected and nothing handles it: the process dies.
Crashed(command, name, noCache) ==
    Outcome(command, name, noCache, "crashed", <<>>, <<>>, <<>>, 1)

\* The branch of the picker's handler on the prompt's result with a fault:
\* a project chosen for its info is recorded as launched too.
recordsAlways(result) == TRUE

\* The branch of the picker's handler on the prompt's result: whether the
\* project is recorded and launched.
records(result) == result.action # "info"

\* The paths of a list of statistics.
pathsOf(stats) == [i \in 1..Len(stats) |-> stats[i].project.path]

----------------------------------------------------------------------------
(* The project summaries *)

SUMMARY_MAX_AGE_MS == 24 * 60 * 60 * 1000

\* The delay of the timer that generateSummary sets.
GENERATE_TIMEOUT_MS == 30000

\* getSummaryCachePath: projectPath.replace(/\//g, "-").replace(/^-/, "").
\* The directory and the extension that are put around it are the same for
\* every path.
getSummaryCachePath(projectPath) ==
    LET dashed == [i \in 1..Len(projectPath) |->
                      IF projectPath[i] = "/" THEN "-" ELSE projectPath[i]]
    IN  IF Len(dashed) > 0 /\ dashed[1] = "-" THEN Tail(dashed) ELSE dashed

\* lastActivity?.toISOString() ?? ""
EmptyString == [kind |-> "empty", t |-> 0]
activityString(lastActivity) ==
    IF lastActivity.kind = "null" THEN EmptyString ELSE toISOString(lastActivity)

\* What generateSummary resolves with: the trimmed output of the claude
\* process, which is about the project it ran for, or one of three fixed
\* strings, which are about none.
OutputText(chars, projectPath) ==
    [kind |-> "output", chars |-> chars, about |-> projectPath]
UnableText == [kind |-> "Unable to generate summary", chars |-> <<>>, about |-> <<>>]
NotAvailableText ==
    [kind |-> "Claude CLI not available for summary", chars |-> <<>>, about |-> <<>>]
TimedOutText == [kind |-> "Summary generation timed out", chars |-> <<>>, about |-> <<>>]

\* The content of a file in the summaries directory: no file, a file that is
\* not JSON, or the SummaryCache that saveSummaryCache wrote.
NoDocument ==
    [kind |-> "missing", timestamp |-> 0, lastActivity |-> EmptyString,
     summary |-> UnableText]
UnparseableDocument ==
    [kind |-> "unparseable", timestamp |-> 0, lastActivity |-> EmptyString,
     summary |-> UnableText]
SummaryCache(timestamp, lastActivity, summary) ==
    [kind |-> "data", timestamp |-> timestamp, lastActivity |-> lastActivity,
     summary |-> summary]

\* The paths of the projects that are summarized: a directory b in /a, and
\* a directory a-b in the root. The scan root's entry -a-b is decoded to
\* the first while it is on disk, and to the second when only that is.
SummaryPaths ==
    {<<"/", PartNames[1], "/", PartNames[2]>>,
     <<"/", PartNames[1], "-", PartNames[2]>>}

\* The summaries directory before any summary is saved.
NoSummaries == [file \in {getSummaryCachePath(p) : p \in SummaryPaths} |-> NoDocument]

\* getCachedSummary with a fault: a summary exactly 24 hours old is served.
getCachedSummaryAtMaxAge(dir, projectPath, lastActivity, time) ==
    LET cache == dir[getSummaryCachePath(projectPath)]
    IN  IF cache.kind # "data" THEN <<>>
        ELSE IF activityString(lastActivity) = RangeError THEN <<>>
        ELSE IF /\ time - cache.timestamp <= SUMMARY_MAX_AGE_MS
                /\ cache.lastActivity = activityString(lastActivity)
        THEN <<cache.summary>>
        ELSE <<>>

\* getCachedSummary: <<summary>>, or <<>> for null. readFile, JSON.parse and
\* toISOString throw inside the try.
getCachedSummary(dir, projectPath, lastActivity, time) ==
    LET cache == dir[getSummaryCachePath(projectPath)]
    IN  IF cache.kind # "data" THEN <<>>
        ELSE IF activityString(lastActivity) = RangeError THEN <<>>
        ELSE IF /\ time - cache.timestamp < SUMMARY_MAX_AGE_MS
                /\ cache.lastActivity = activityString(lastActivity)
        THEN <<cache.summary>>
        ELSE <<>>

\* saveSummaryCache: the directory it leaves.
saveSummaryCache(dir, projectPath, lastActivity, summary, time) ==
    [dir EXCEPT ![getSummaryCachePath(projectPath)] =
        SummaryCache(time, activityString(lastActivity), summary)]

\* if (cached): a string is truthy unless it is empty.
truthy(cached) ==
    Len(cached) > 0 /\ (cached[1].kind = "output" => Len(cached[1].chars) > 0)

\* String.prototype.trim for strings of blanks and letters.
RECURSIVE trimStart(_)
trimStart(s) ==
    IF Len(s) > 0 /\ s[1] = " " THEN trimStart(Tail(s)) ELSE s
RECURSIVE trimEnd(_)
trimEnd(s) ==
    IF Len(s) > 0 /\ s[Len(s)] = " " THEN trimEnd(SubSeq(s, 1, Len(s) - 1)) ELSE s
trim(s) == trimEnd(trimStart(s))

\* output.trim() || "Unable to generate summary"
closeText(output, projectPath) ==
    IF Len(trim(output)) > 0 THEN OutputText(trim(output), projectPath)
    ELSE UnableText

\* A getOrGenerateSummary call: where it is, what it was called with, the
\* claude process it spawned and the promise of generateSummary.
\*   phase      "none" before any call, "generating" while it awaits
\*              generateSummary, "returned" afterwards
\*   spawned    whether it spawned the claude process
\*   began      Date.now() when it spawned the process
\*   output     what the process wrote so far
\*   closed, errored, timedOut   the events that have happened
\*   resolves   how often the promise's value was set
\*   spawns     how many claude processes this and the earlier calls spawned
\*   fromCache, result           what it returned
NoSummary ==
    [phase |-> "none", path |-> <<>>, lastActivity |-> NullDate,
     spawned |-> FALSE, began |-> 0, output |-> <<>>,
     closed |-> FALSE, errored |-> FALSE, timedOut |-> FALSE,
     resolves |-> 0, spawns |-> 0, fromCache |-> FALSE, result |-> UnableText]

\* resolve(text) with a fault: a later event settles the promise again.
resolveAgain(call, dir, text, time) ==
    [call |-> [call EXCEPT !.phase = "returned", !.resolves = @ + 1,
                           !.result = text],
     dir |-> saveSummaryCache(dir, call.path, call.lastActivity, text, time)]

\* resolve(text) in generateSummary, and what getOrGenerateSummary does
\* when its await returns: the first resolve settles the promise, and the
\* caller saves the summary and returns it; a later resolve does nothing.
resolve(call, dir, text, time) ==
    IF call.resolves > 0 THEN [call |-> call, dir |-> dir]
    ELSE [call |-> [call EXCEPT !.phase = "returned", !.resolves = 1,
                                !.result = text],
          dir |-> saveSummaryCache(dir, call.path, call.lastActivity, text, time)]

----------------------------------------------------------------------------
(* The pricing *)

\* A rate in hundredths of a dollar per million tokens, so that every rate of
\* the table is a whole number; a cost is then in hundred-millionths of a
\* dollar, and the sums are the code's sums without their rounding. The
\* code's division, multiplication and additions are IEEE operations, which
\* round monotonically and leave 0 as it is.
ModelPricing(input, output, cacheWrite, cacheRead) ==
    [kind |-> "pricing", input |-> input, output |-> output,
     cacheWrite |-> cacheWrite, cacheRead |-> cacheRead]

\* PRICING[model]: the table's own entries, undefined for a name that is
\* nowhere, and for a name of Object.prototype the member inherited from it,
\* which is truthy and has none of the four rates.
PRICING(model) ==
    IF model = "opus-4" THEN ModelPricing(1500, 7500, 1875, 150)
    ELSE IF model = "sonnet-4" THEN ModelPricing(300, 1500, 375, 30)
    ELSE IF model = "haiku-4" THEN ModelPricing(80, 400, 100, 8)
    ELSE IF model \in {"constructor", "toString"}
    THEN [kind |-> "inherited", input |-> 0, output |-> 0, cacheWrite |-> 0,
          cacheRead |-> 0]
    ELSE [kind |-> "undefined", input |-> 0, output |-> 0, cacheWrite |-> 0,
          cacheRead |-> 0]

DEFAULT_MODEL == "sonnet-4"

\* A number: NaN, or a value.
NaN == [nan |-> TRUE, value |-> 0]
Number(value) == [nan |-> FALSE, value |-> value]

\* calculateCost: PRICING[model] || PRICING[DEFAULT_MODEL], then the sum of
\* the four products. A rate that is undefined makes its product NaN.
calculateCost(usage, model) ==
    LET pricing == IF PRICING(model).kind # "undefined" THEN PRICING(model)
                   ELSE PRICING(DEFAULT_MODEL)
    IN  IF pricing.kind = "inherited" THEN NaN
        ELSE Number(usage.inputTokens * pricing.input
                    + usage.outputTokens * pricing.output
                    + usage.cacheCreationInputTokens * pricing.cacheWrite
                    + usage.cacheReadInputTokens * pricing.cacheRead)

\* The value of the result variable before any call.
NoCost ==
    [called |-> FALSE,
     usage |-> [inputTokens |-> 0, outputTokens |-> 0,
                cacheCreationInputTokens |-> 0, cacheReadInputTokens |-> 0],
     model |-> DEFAULT_MODEL, cost |-> Number(0)]

----------------------------------------------------------------------------
(* Concurrent getStats: the steps of one invocation *)

\* What is known of the statistics in cache.json: the process whose write
\* left them and the scan root's mtime when that process scanned. Writer 0
\* is no process: no file, or a text that is no document.
Origin(writer, scanMtime) == [writer |-> writer, scanMtime |-> scanMtime]
NoOrigin == Origin(0, 0)

\* A process that has not called getStats. pc follows the awaits of
\* getStats and setCache: "missed" after getCached, "scanned" after
\* scanProjects and parseAllProjects, "built" when setCache has its
\* CacheData, "opened" when writeFile has opened cache.json, "done".
IdleGet ==
    [pc |-> "idle", opts |-> NoOpts, stats |-> <<>>, scanMtime |-> 0,
     data |-> NoFile, fromCache |-> FALSE, threw |-> FALSE,
     served |-> NoOrigin, fingerprint |-> 0]

\* size is the length of the text in cache.json, writes the processes in
\* the order of their writes.
NoGetting ==
    [procs |-> [p \in {1, 2} |-> IdleGet], size |-> 0, origin |-> NoOrigin,
     writes |-> <<>>]

\* The length of JSON.stringify(data), counted in projects: the envelope
\* and one unit for each element of stats.
textLength(data) == 1 + Len(data.stats)

\* writeFile opens cache.json with the flag "w", which truncates it:
\* JSON.parse throws on the empty text.
openTruncating(file) == UnparseableFile

\* writeFile's write, at the start of the file it opened: a longer text that
\* another process wrote since keeps its end, and the whole is no document.
writeAtStart(file, size, data) ==
    IF size > textLength(data)
    THEN [file |-> UnparseableFile, size |-> size]
    ELSE [file |-> data, size |-> textLength(data)]

----------------------------------------------------------------------------
(* parseAllProjects: the concurrent parseProject calls *)

\* A project's storage directory: whether readdir lists it, and its files.
StorageDir(listable, listing) == [listable |-> listable, listing |-> listing]

\* A parseProject call in flight. pc is "listing" until readdir answers,
\* "reading" while the loop awaits the readFile of jsonlFiles[file], and
\* "resolved" when the call has returned its own stats object.
Task(pc, jsonlFiles, file, stats) ==
    [pc |-> pc, jsonlFiles |-> jsonlFiles, file |-> file, stats |-> stats]

\* parseProject up to its first await.
startTask(project) == Task("listing", <<>>, 0, EmptyStats(project))

\* readdir answers: it throws for a directory that cannot be listed, and
\* the call returns the empty statistics; no .jsonl file ends the loop.
afterReaddir(task, dir) ==
    IF ~dir.listable THEN [task EXCEPT !.pc = "resolved"]
    ELSE LET jsonlFiles == SelectSeq(dir.listing, LAMBDA f : f.jsonl)
         IN  Task(IF Len(jsonlFiles) = 0 THEN "resolved" ELSE "reading",
                  jsonlFiles, 1,
                  [task.stats EXCEPT !.sessions = Len(jsonlFiles)])

\* readFile answers: it throws for a file that cannot be read, and the call
\* returns what it has; else the lines are added and the loop goes on.
afterReadFile(task) ==
    IF ~task.jsonlFiles[task.file].readable THEN [task EXCEPT !.pc = "resolved"]
    ELSE Task(IF task.file = Len(task.jsonlFiles) THEN "resolved" ELSE "reading",
              task.jsonlFiles, task.file + 1,
              parseLines(task.stats, task.jsonlFiles[task.file].lines, 1))

\* Promise.all with a fault: the values are in the order the promises
\* resolved in.
promiseAllAsResolved(tasks, order) == [i \in 1..Len(tasks) |-> tasks[order[i]].stats]

\* Promise.all: the values of the promises, in the order of the array.
promiseAll(tasks, order) == [i \in 1..Len(tasks) |-> tasks[i].stats]

\* The state before any parseAllProjects call. order lists the calls in the
\* order they resolved in.
NoParsing ==
    [phase |-> "none", projects |-> <<>>, dirs |-> <<>>, tasks |-> <<>>,
     order |-> <<>>, result |-> <<>>]

----------------------------------------------------------------------------
(* The picker's prompt *)

\* A key as the keypress event of Node's readline carries it to useKeypress.
Key(name, ctrl, shift) == [name |-> name, ctrl |-> ctrl, shift |-> shift]

\* The key of a pressed key. readline names a letter in lower case and sets
\* shift for a capital, so "G" arrives as the name "g" with shift; the
\* enter key is named "return".
keypress(pressed) ==
    IF pressed = "G" THEN Key("g", FALSE, TRUE)
    ELSE IF pressed = "enter" THEN Key("return", FALSE, FALSE)
    ELSE IF pressed = "ctrl-c" THEN Key("c", TRUE, FALSE)
    ELSE Key(pressed, FALSE, FALSE)

\* isEnterKey, isUpKey and isDownKey of @inquirer/core.
isEnterKey(key) == key.name \in {"enter", "return"}
isUpKey(key) == key.name \in {"up", "k"} \/ (key.ctrl /\ key.name = "p")
isDownKey(key) == key.name \in {"down", "j"} \/ (key.ctrl /\ key.name = "n")

\* cfg.choices.filter((c) => !c.disabled)
selectableChoices(choices) == SelectSeq(choices, LAMBDA c : ~c.disabled)

\* The prompt before vimSelect is called. resolved holds the values done
\* was called with, cancelled counts the CancelPromptErrors thrown, and
\* pressed lists the keys pressed.
NoSelect ==
    [phase |-> "none", choices |-> <<>>, active |-> 0, status |-> "idle",
     resolved |-> <<>>, cancelled |-> 0, pressed |-> <<>>]

\* The handler given to useKeypress.
onKeypress(prompt, key) ==
    LET selectable == selectableChoices(prompt.choices)
    IN  IF prompt.status = "done" THEN prompt
        ELSE IF key.name = "escape" \/ (key.ctrl /\ key.name = "c")
        THEN [prompt EXCEPT !.status = "done", !.cancelled = @ + 1]
        ELSE IF isEnterKey(key)
        THEN IF prompt.active + 1 \in DOMAIN selectable
             THEN [prompt EXCEPT
                     !.status = "done",
                     !.resolved = Append(@, selectable[prompt.active + 1].value)]
             ELSE prompt
        ELSE IF isUpKey(key) \/ key.name = "k"
        THEN IF prompt.active - 1 >= 0
             THEN [prompt EXCEPT !.active = prompt.active - 1] ELSE prompt
        ELSE IF isDownKey(key) \/ key.name = "j"
        THEN IF prompt.active + 1 < Len(selectable)
             THEN [prompt EXCEPT !.active = prompt.active + 1] ELSE prompt
        ELSE IF key.name = "g" THEN [prompt EXCEPT !.active = 0]
        ELSE IF key.name = "G"
        THEN [prompt EXCEPT !.active = Len(selectable) - 1]
        ELSE prompt

----------------------------------------------------------------------------
(* The disk and the inputs of the decoder *)

Separators == {"/", "-", "_"}

\* The absolute paths of exactly n name parts, joined by "/", "-" or "_".
RECURSIVE PathsOf(_)
PathsOf(n) ==
    IF n = 1 THEN {<<"/", PartNames[1]>>}
    ELSE {p \o <<s, PartNames[n]>> : p \in PathsOf(n - 1), s \in Separators}

AllPaths == UNION {PathsOf(n) : n \in 1..MaxParts}

\* The directory a path lies in.
Parent(path) ==
    LET slashes == {i \in 1..Len(path) : path[i] = "/"}
        last == CHOOSE i \in slashes : \A j \in slashes : j <= i
    IN  IF last = 1 THEN <<"/">> ELSE SubSeq(path, 1, last - 1)

\* The names decodePath is asked to decode: the encodings of the paths.
EncodedNames == {encodePath(p) : p \in AllPaths}

Init ==
    /\ fs = {}
    /\ rootExists = TRUE
    /\ entries = <<>>
    /\ decoded = NoDecode
    /\ projects = NoScan
    /\ dirListable = TRUE
    /\ files = <<>>
    /\ parsed = NoParse
    /\ now = 1
    /\ rootMtime = 1
    /\ cacheFile = NoFile
    /\ stored = NoStore
    /\ loaded = NoLoad
    /\ cleared = NoClear
    /\ clock = 0
    /\ history = NoHistory
    /\ launchLog = <<>>
    /\ config = NoConfig
    /\ scored = NoScores
    /\ ranked = NoRanking
    /\ got = NoStats
    /\ run = NoRun
    /\ summaries = NoSummaries
    /\ summarized = NoSummary
    /\ costed = NoCost
    /\ launching = NoLaunching
    /\ getting = NoGetting
    /\ parsing = NoParsing
    /\ select = NoSelect

\* mkdir path, on a disk of fewer than most directories: its parent exists.
\* Results of earlier calls are forgotten, since every property relates a
\* result to the disk it was computed on. The disk is laid out before the
\* scan root is filled, which reaches every pair of a disk and a listing.
Mkdir(path, most) ==
    /\ Cardinality(fs) < most
    /\ Len(entries) = 0
    /\ path \notin fs
    /\ exists(Parent(path), fs)
    /\ fs' = fs \cup {path}
    /\ decoded' = NoDecode
    /\ projects' = NoScan
    /\ got' = NoStats
    /\ run' = NoRun
    /\ UNCHANGED <<moreVars, rootExists, entries, parseVars, cacheVars, histVars>>

\* A call of decodePath(encoded).
DecodePath(encoded) ==
    /\ decoded' = [called |-> TRUE, encoded |-> encoded,
                   result |-> decodePath(encoded, fs)]
    /\ UNCHANGED <<moreVars, fs, rootExists, entries, projects, parseVars, cacheVars, cliVars>>

DecodeNext ==
    \/ \E path \in AllPaths : Mkdir(path, MaxDirs)
    \/ \E encoded \in EncodedNames : DecodePath(encoded)

SpecDecode == Init /\ [][DecodeNext]_vars

----------------------------------------------------------------------------
(* The scan root *)

\* The paths on disk when the scan root is scanned.
ScanPaths == UNION {PathsOf(n) : n \in 1..MaxEntryParts}

\* The entries of the scan root: [name, kind]. A name is the encoding of a
\* path, or a hidden name. kind "dir" is a directory, "file" is not one, and
\* stat throws on "broken". A hidden entry is never looked at, so it has one
\* kind.
HiddenNames == {<<".">> \o Tail(encodePath(p)) : p \in PathsOf(1)}
EntryNames == {encodePath(p) : p \in ScanPaths} \cup HiddenNames
EntryKinds == {"dir", "file", "broken"}
Entries ==
    {[name |-> name, kind |-> kind] :
        name \in EntryNames \ HiddenNames, kind \in EntryKinds}
    \cup {[name |-> name, kind |-> "dir"] : name \in HiddenNames}

NamesOf(listing) == {listing[i].name : i \in 1..Len(listing)}

\* An entry appears in the scan root; readdir lists it last.
AddEntry(entry) ==
    /\ rootExists
    /\ Len(entries) < MaxEntries
    /\ entry.name \notin NamesOf(entries)
    /\ entries' = Append(entries, entry)
    /\ rootMtime' = now
    /\ projects' = NoScan
    /\ stored' = NoStore
    /\ loaded' = NoLoad
    /\ got' = NoStats
    /\ run' = NoRun
    /\ UNCHANGED <<moreVars, fs, rootExists, decoded, parseVars, now, cacheFile, cleared, histVars>>

\* The scan root is removed with all it holds.
RemoveRoot ==
    /\ rootExists
    /\ rootExists' = FALSE
    /\ entries' = <<>>
    /\ projects' = NoScan
    /\ stored' = NoStore
    /\ loaded' = NoLoad
    /\ UNCHANGED <<moreVars, fs, decoded, parseVars, now, rootMtime, cacheFile, cleared, cliVars>>

\* The scan root is made again, empty.
MakeRoot ==
    /\ ~rootExists
    /\ rootExists' = TRUE
    /\ rootMtime' = now
    /\ projects' = NoScan
    /\ stored' = NoStore
    /\ loaded' = NoLoad
    /\ UNCHANGED <<moreVars, fs, entries, decoded, parseVars, now, cacheFile, cleared, cliVars>>

\* A call of scanProjects().
ScanProjects ==
    /\ projects' = [called |-> TRUE,
                    list |-> scanProjects(rootExists, entries, fs)]
    /\ UNCHANGED <<moreVars, fs, rootExists, entries, decoded, parseVars, cacheVars, cliVars>>

ScanNext ==
    \/ \E path \in ScanPaths : Mkdir(path, MaxScanDirs)
    \/ \E entry \in Entries : AddEntry(entry)
    \/ RemoveRoot
    \/ MakeRoot
    \/ ScanProjects

SpecScan == Init /\ [][ScanNext]_vars

----------------------------------------------------------------------------
(* A project's storage directory *)

\* The usage objects of the record lines: none, and one with a field missing.
NoUsage ==
    [present |-> FALSE, input_tokens |-> MISSING, output_tokens |-> MISSING,
     cache_creation_input_tokens |-> MISSING, cache_read_input_tokens |-> MISSING]
SomeUsage ==
    [present |-> TRUE, input_tokens |-> 100, output_tokens |-> 50,
     cache_creation_input_tokens |-> MISSING, cache_read_input_tokens |-> 300]
Usages == {NoUsage, SomeUsage}

Timestamps == {NoTimestamp, BadTimestamp, IsoString(1000), IsoString(2000)}

\* A line that is not JSON.
MalformedLine ==
    [json |-> FALSE, timestamp |-> NoTimestamp,
     usage |-> NoUsage]

Lines ==
    {MalformedLine} \cup
    {[json |-> TRUE, timestamp |-> ts, usage |-> u] : ts \in Timestamps, u \in Usages}

\* One record file that holds the given lines.
OneFile(lines) == <<[jsonl |-> TRUE, readable |-> TRUE, lines |-> lines]>>

RECURSIVE CountLines(_)
CountLines(listing) ==
    IF Len(listing) = 0 THEN 0
    ELSE Len(listing[1].lines) + CountLines(Tail(listing))

\* A file appears in the directory; readdir lists it last.
AddFile(jsonl, readable) ==
    /\ dirListable
    /\ Len(files) < MaxFiles
    /\ files' = Append(files, [jsonl |-> jsonl, readable |-> readable, lines |-> <<>>])
    /\ parsed' = NoParse
    /\ UNCHANGED <<moreVars, dirListable, scanVars, cacheVars, cliVars>>

\* A line is appended to the record file listed last.
AppendLine(line) ==
    /\ Len(files) > 0
    /\ files[Len(files)].jsonl
    /\ files[Len(files)].readable
    /\ CountLines(files) < MaxLines
    /\ files' = [files EXCEPT ![Len(files)].lines = Append(@, line)]
    /\ parsed' = NoParse
    /\ UNCHANGED <<moreVars, dirListable, scanVars, cacheVars, cliVars>>

\* The directory is removed with all it holds.
RemoveDir ==
    /\ dirListable
    /\ dirListable' = FALSE
    /\ files' = <<>>
    /\ parsed' = NoParse
    /\ UNCHANGED <<moreVars, scanVars, cacheVars, cliVars>>

\* A call of parseProject(project).
ParseProject ==
    /\ parsed' = [called |-> TRUE,
                  stats |-> parseProject(SampleProject, dirListable, files)]
    /\ UNCHANGED <<moreVars, dirListable, files, scanVars, cacheVars, cliVars>>

ParseNext ==
    \/ \E jsonl \in BOOLEAN, readable \in BOOLEAN : AddFile(jsonl, readable)
    \/ \E line \in Lines : AppendLine(line)
    \/ RemoveDir
    \/ ParseProject

SpecParse == Init /\ [][ParseNext]_vars

----------------------------------------------------------------------------
(* The cache file, the clock and the scan root's modification time *)

\* The listings the cached statistics are parsed from: no files; one file
\* with two dated usage lines; one file whose first line has a timestamp
\* that is no date.
SampleListings ==
    {<<>>,
     OneFile(<<[json |-> TRUE, timestamp |-> IsoString(1000), usage |-> SomeUsage],
               [json |-> TRUE, timestamp |-> IsoString(2000), usage |-> SomeUsage]>>),
     OneFile(<<[json |-> TRUE, timestamp |-> BadTimestamp, usage |-> NoUsage],
               [json |-> TRUE, timestamp |-> IsoString(1000), usage |-> NoUsage]>>)}

\* The statistics parseProject yields for them.
SampleStats == {parseProject(SampleProject, TRUE, l) : l \in SampleListings}

\* The collections handed to setCache.
StatsInputs == UNION {[1..n -> SampleStats] : n \in 0..MaxProjects}

\* Time passes.
AdvanceClock(ms) ==
    /\ \/ ms = 1 /\ (now - 1) % CACHE_TTL_MS < MaxDrift
       \/ ms = CACHE_TTL_MS /\ (now - 1) \div CACHE_TTL_MS < MaxSpans
    /\ now' = now + ms
    /\ stored' = NoStore
    /\ loaded' = NoLoad
    /\ got' = NoStats
    /\ run' = NoRun
    /\ UNCHANGED <<moreVars, scanVars, parseVars, rootMtime, cacheFile, cleared, histVars>>

\* An entry is added to or removed from the scan root, which sets its mtime.
TouchRoot ==
    /\ rootExists
    /\ rootMtime # now
    /\ rootMtime' = now
    /\ stored' = NoStore
    /\ loaded' = NoLoad
    /\ UNCHANGED <<moreVars, scanVars, parseVars, now, cacheFile, cleared, cliVars>>

\* cache.json is damaged (a cut-off write, an edit by hand).
CorruptCache ==
    /\ cacheFile.kind = "data"
    /\ cacheFile' = UnparseableFile
    /\ stored' = NoStore
    /\ loaded' = NoLoad
    /\ cleared' = NoClear
    /\ UNCHANGED <<moreVars, scanVars, parseVars, now, rootMtime, cliVars>>

\* A call of setCache(stats).
SetCache(stats) ==
    /\ cacheFile' = setCache(cacheFile, stats, now,
                             getProjectsDirMtime(rootExists, rootMtime))
    /\ stored' = [called |-> TRUE, stats |-> stats]
    /\ loaded' = NoLoad
    /\ cleared' = NoClear
    /\ UNCHANGED <<moreVars, scanVars, parseVars, now, rootMtime, cliVars>>

\* A call of getCached().
GetCached ==
    /\ loaded' = getCached(cacheFile, now,
                           getProjectsDirMtime(rootExists, rootMtime))
    /\ UNCHANGED <<moreVars, scanVars, parseVars, now, rootMtime, cacheFile, stored, cleared, cliVars>>

\* A call of clearCache().
ClearCache ==
    /\ cacheFile' = clearCache(cacheFile).file
    /\ cleared' = [called |-> TRUE, result |-> clearCache(cacheFile).result]
    /\ stored' = NoStore
    /\ loaded' = NoLoad
    /\ UNCHANGED <<moreVars, scanVars, parseVars, now, rootMtime, cliVars>>

CacheNext ==
    \/ \E ms \in {1, CACHE_TTL_MS} : AdvanceClock(ms)
    \/ TouchRoot
    \/ RemoveRoot
    \/ MakeRoot
    \/ CorruptCache
    \/ \E stats \in StatsInputs : SetCache(stats)
    \/ GetCached
    \/ ClearCache

SpecCache == Init /\ [][CacheNext]_vars

----------------------------------------------------------------------------
(* Obtaining the statistics: the projects, their records, the cache *)

\* The projects' paths: /a and /a/b.
ProjectPaths ==
    {<<"/", PartNames[1]>>, <<"/", PartNames[1], "/", PartNames[2]>>}

\* Their directories in the scan root.
ProjectEntries == {[name |-> encodePath(p), kind |-> "dir"] : p \in ProjectPaths}

\* The record files are replaced by others, before the scan root is filled.
WriteRecords(listing) ==
    /\ dirListable
    /\ Len(entries) = 0
    /\ files # listing
    /\ files' = listing
    /\ parsed' = NoParse
    /\ got' = NoStats
    /\ run' = NoRun
    /\ UNCHANGED <<moreVars, dirListable, scanVars, cacheVars, histVars>>

\* The arguments getStats takes from the state.
StatsFor(opts) ==
    getStats(opts, cacheFile, now, rootExists, rootMtime, entries, fs,
             dirListable, files)

\* A call of getStats(opts).
GetStats(opts) ==
    /\ got' = StatsFor(opts)
    /\ cacheFile' = StatsFor(opts).file
    /\ stored' = NoStore
    /\ loaded' = NoLoad
    /\ cleared' = IF StatsFor(opts).fromCache THEN cleared ELSE NoClear
    /\ UNCHANGED <<moreVars, scanVars, parseVars, now, rootMtime, histVars, run>>

StatsNext ==
    \/ \E path \in ProjectPaths : Mkdir(path, MaxScanDirs)
    \/ \E entry \in ProjectEntries : AddEntry(entry)
    \/ \E listing \in SampleListings : WriteRecords(listing)
    \/ \E ms \in {1, CACHE_TTL_MS} : AdvanceClock(ms)
    \/ \E cache \in BOOLEAN : GetStats(Opts(cache))

SpecStats == Init /\ [][StatsNext]_vars

----------------------------------------------------------------------------
(* The commands *)

\* What a call of getStats leaves behind.
Obtained(stats) ==
    /\ got' = stats
    /\ cacheFile' = stats.file
    /\ stored' = NoStore
    /\ loaded' = NoLoad
    /\ cleared' = IF stats.fromCache THEN cleared ELSE NoClear

\* The project names given on the command line.
Queries == {<<"a">>, <<"B">>, <<"z">>}

\* The keys that end the picker's prompt.
Keys == {"enter", "i", "escape"}

\* cclp list [-a] [--no-cache]
List(cache, all) ==
    LET stats == StatsFor(Opts(cache))
        command == IF all THEN "list --all" ELSE "list"
        listed == IF all THEN stats.stats
                  ELSE filterArchived(stats.stats, loadConfig(config))
    IN  /\ Obtained(stats)
        /\ run' = IF stats.threw THEN Crashed(command, <<>>, ~cache)
                  ELSE Outcome(command, <<>>, ~cache, "done",
                               pathsOf(showTable(listed)), <<>>, <<>>, 0)
        /\ UNCHANGED <<moreVars, scanVars, parseVars, now, rootMtime, histVars>>

\* cclp recent [--no-cache]
Recent(cache) ==
    LET stats == StatsFor(Opts(cache))
        listed == filterArchived(stats.stats, loadConfig(config))
        frecencyScores == getFrecencyScores(history, clock)
    IN  /\ Obtained(stats)
        /\ run' = IF stats.threw THEN Crashed("recent", <<>>, ~cache)
                  ELSE Outcome("recent", <<>>, ~cache, "done",
                               pathsOf(showRecent(listed, frecencyScores, 5)),
                               <<>>, <<>>, 0)
        /\ UNCHANGED <<moreVars, scanVars, parseVars, now, rootMtime, histVars>>

\* cclp info <name> [--no-cache]
Info(cache, name) ==
    LET stats == StatsFor(NoOpts)
        match == fuzzyMatch(stats.stats, name)
    IN  /\ Obtained(stats)
        /\ run' = IF stats.threw THEN Crashed("info", name, ~cache)
                  ELSE IF Len(match) = 0
                  THEN Outcome("info", name, ~cache, "no match", <<>>, <<>>, <<>>, 1)
                  ELSE Outcome("info", name, ~cache, "done", pathsOf(match),
                               <<>>, <<>>, 0)
        /\ UNCHANGED <<moreVars, scanVars, parseVars, now, rootMtime, histVars>>

\* cclp open <name> [--no-cache]
Open(cache, name) ==
    LET stats == StatsFor(Opts(cache))
        match == fuzzyMatch(stats.stats, name)
    IN  /\ Obtained(stats)
        /\ IF stats.threw
           THEN /\ run' = Crashed("open", name, ~cache)
                /\ UNCHANGED <<moreVars, history, launchLog>>
           ELSE IF Len(match) = 0
           THEN /\ run' = Outcome("open", name, ~cache, "no match",
                                  <<>>, <<>>, <<>>, 1)
                /\ UNCHANGED <<moreVars, history, launchLog>>
           ELSE /\ Len(launchLog) < MaxLaunches
                /\ history' = recordLaunch(history, match[1].project.path, clock)
                /\ launchLog' = Append(launchLog,
                                       [path |-> match[1].project.path, time |-> clock])
                /\ run' = Outcome("open", name, ~cache, "launched", <<>>,
                                  pathsOf(match), pathsOf(match), -1)
        /\ UNCHANGED <<moreVars, scanVars, parseVars, now, rootMtime, clock, config, scored, ranked>>

\* cclp stats [--no-cache]
ShowStats(cache) ==
    LET stats == StatsFor(Opts(cache))
    IN  /\ Obtained(stats)
        /\ run' = IF stats.threw THEN Crashed("stats", <<>>, ~cache)
                  ELSE Outcome("stats", <<>>, ~cache, "done", <<>>, <<>>, <<>>, 0)
        /\ UNCHANGED <<moreVars, scanVars, parseVars, now, rootMtime, histVars>>

\* cclp cost [--no-cache]: it scans the projects and reads their records
\* itself.
Cost(cache) ==
    /\ got' = NoStats
    /\ run' = Outcome("cost", <<>>, ~cache, "done", <<>>, <<>>, <<>>, 0)
    /\ UNCHANGED <<moreVars, scanVars, parseVars, cacheVars, histVars>>

\* cclp export [--no-cache]
Export(cache) ==
    LET stats == StatsFor(Opts(cache))
    IN  /\ Obtained(stats)
        /\ run' = IF stats.threw THEN Crashed("export", <<>>, ~cache)
                  ELSE Outcome("export", <<>>, ~cache, "done",
                               pathsOf(stats.stats), <<>>, <<>>, 0)
        /\ UNCHANGED <<moreVars, scanVars, parseVars, now, rootMtime, histVars>>

\* cclp archive <name> [--no-cache]
Archive(cache, name) ==
    LET stats == StatsFor(NoOpts)
        match == fuzzyMatch(stats.stats, name)
    IN  /\ Obtained(stats)
        /\ IF stats.threw
           THEN run' = Crashed("archive", name, ~cache) /\ UNCHANGED config
           ELSE IF Len(match) = 0
           THEN /\ run' = Outcome("archive", name, ~cache, "no match",
                                  <<>>, <<>>, <<>>, 1)
                /\ UNCHANGED config
           ELSE /\ config' = archiveProject(config, match[1].project.path)
                /\ run' = Outcome("archive", name, ~cache, "done", pathsOf(match),
                                  <<>>, <<>>, 0)
        /\ UNCHANGED <<moreVars, scanVars, parseVars, now, rootMtime, clock, history,
                       launchLog, scored, ranked>>

\* cclp unarchive <name> [--no-cache]
Unarchive(cache, name) ==
    LET stats == StatsFor(NoOpts)
        match == fuzzyMatch(stats.stats, name)
    IN  /\ Obtained(stats)
        /\ IF stats.threw
           THEN run' = Crashed("unarchive", name, ~cache) /\ UNCHANGED config
           ELSE IF Len(match) = 0
           THEN /\ run' = Outcome("unarchive", name, ~cache, "no match",
                                  <<>>, <<>>, <<>>, 1)
                /\ UNCHANGED config
           ELSE /\ config' = unarchiveProject(config, match[1].project.path)
                /\ run' = Outcome("unarchive", name, ~cache, "done", pathsOf(match),
                                  <<>>, <<>>, 0)
        /\ UNCHANGED <<moreVars, scanVars, parseVars, now, rootMtime, clock, history,
                       launchLog, scored, ranked>>

\* cclp clear-cache
ClearCacheCommand ==
    /\ cacheFile' = clearCache(cacheFile).file
    /\ cleared' = [called |-> TRUE, result |-> clearCache(cacheFile).result]
    /\ stored' = NoStore
    /\ loaded' = NoLoad
    /\ got' = NoStats
    /\ run' = Outcome("clear-cache", <<>>, FALSE, "done", <<>>, <<>>, <<>>, 0)
    /\ UNCHANGED <<moreVars, scanVars, parseVars, now, rootMtime, histVars>>

\* cclp [--no-cache]: the picker, which the user ends with key on the
\* active-th choice.
Picker(cache, key, active) ==
    LET stats == StatsFor(Opts(cache))
        listed == filterArchived(stats.stats, loadConfig(config))
        frecencyScores == getFrecencyScores(history, clock)
        picked == showPicker(listed, frecencyScores, key, active)
        shown == pathsOf(picked.choices)
    IN  /\ IF stats.threw \/ Len(listed) = 0 \/ key = "escape"
           THEN active = 1 /\ (key = "escape" \/ key = "enter")
           ELSE active \in 1..Len(listed)
        /\ Obtained(stats)
        /\ IF stats.threw
           THEN /\ run' = Crashed("picker", <<>>, ~cache)
                /\ UNCHANGED <<moreVars, history, launchLog>>
           ELSE IF picked.threw
           THEN /\ run' = [Outcome("picker", <<>>, ~cache, "cancelled", shown,
                                   <<>>, <<>>, 0) EXCEPT !.key = key]
                /\ UNCHANGED <<moreVars, history, launchLog>>
           ELSE IF Len(picked.result) = 0
           THEN /\ run' = Outcome("picker", <<>>, ~cache, "no projects", shown,
                                  <<>>, <<>>, 0)
                /\ UNCHANGED <<moreVars, history, launchLog>>
           ELSE IF ~records(picked.result[1])
           THEN /\ run' = [Outcome("picker", <<>>, ~cache, "info", shown,
                                   <<>>, <<>>, 0) EXCEPT !.key = key]
                /\ UNCHANGED <<moreVars, history, launchLog>>
           ELSE LET path == picked.result[1].value.project.path
                IN  /\ Len(launchLog) < MaxLaunches
                    /\ history' = recordLaunch(history, path, clock)
                    /\ launchLog' = Append(launchLog, [path |-> path, time |-> clock])
                    /\ run' = [Outcome("picker", <<>>, ~cache, "launched", shown,
                                       <<path>>, <<path>>, -1) EXCEPT !.key = key]
        /\ UNCHANGED <<moreVars, scanVars, parseVars, now, rootMtime, clock, config, scored, ranked>>

CliNext ==
    \/ \E path \in ProjectPaths : Mkdir(path, MaxScanDirs)
    \/ \E entry \in ProjectEntries : AddEntry(entry)
    \/ \E cache \in BOOLEAN, all \in BOOLEAN : List(cache, all)
    \/ \E cache \in BOOLEAN : Recent(cache)
    \/ \E cache \in BOOLEAN, name \in Queries : Info(cache, name)
    \/ \E cache \in BOOLEAN, name \in Queries : Open(cache, name)
    \/ \E cache \in BOOLEAN : ShowStats(cache)
    \/ \E cache \in BOOLEAN : Cost(cache)
    \/ \E cache \in BOOLEAN : Export(cache)
    \/ \E cache \in BOOLEAN, name \in Queries : Archive(cache, name)
    \/ \E cache \in BOOLEAN, name \in Queries : Unarchive(cache, name)
    \/ ClearCacheCommand
    \/ \E cache \in BOOLEAN, key \in Keys, active \in 1..MaxEntries :
          Picker(cache, key, active)

SpecCli == Init /\ [][CliNext]_vars

----------------------------------------------------------------------------
(* The launch history under recordLaunch alone *)

\* The project that is launched until its launches are trimmed.
BusyProject == <<"/", PartNames[1]>>

\* The times of the launches the log holds for a path, oldest first.
timesIn(log, path) ==
    LET of == SelectSeq(log, LAMBDA launch : launch.path = path)
    IN  [i \in 1..Len(of) |-> of[i].time]

\* recordLaunch(projectPath), a second after the call before it.
RecordLaunch(projectPath) ==
    /\ Len(timesIn(launchLog, projectPath))
         < (IF projectPath = BusyProject THEN KeptLaunches + MaxOverflow
            ELSE MaxOther)
    /\ history' = recordLaunch(history, projectPath, clock)
    /\ launchLog' = Append(launchLog, [path |-> projectPath, time |-> clock])
    /\ clock' = clock + 1
    /\ UNCHANGED <<moreVars, scanVars, parseVars, cacheVars, config, scored, ranked, got, run>>

HistoryNext == \E projectPath \in ProjectPaths : RecordLaunch(projectPath)

SpecHistory == Init /\ [][HistoryNext]_vars

----------------------------------------------------------------------------
(* The frecency score around the buckets' edges *)

\* The second a bucket ends, the second before and the second after, for
\* every bucket, and the first two seconds.
Edges ==
    {0, 1} \cup UNION {{BUCKETS[i] - 1, BUCKETS[i], BUCKETS[i] + 1} :
                          i \in 1..Len(BUCKETS)}

\* Time passes until the clock reads a later second.
PassTime(to) ==
    /\ to > clock
    /\ clock' = to
    /\ scored' = NoScores
    /\ ranked' = NoRanking
    /\ UNCHANGED <<moreVars, scanVars, parseVars, cacheVars, history, launchLog, config,
                   got, run>>

\* recordLaunch(projectPath) at the second the clock reads.
Launch(projectPath) ==
    /\ Len(launchLog) < MaxLaunches
    /\ history' = recordLaunch(history, projectPath, clock)
    /\ launchLog' = Append(launchLog, [path |-> projectPath, time |-> clock])
    /\ scored' = NoScores
    /\ ranked' = NoRanking
    /\ UNCHANGED <<moreVars, scanVars, parseVars, cacheVars, clock, config, got, run>>

\* What getFrecencyScores hands to calculateFrecency, an empty array and
\* undefined.
TimestampInputs ==
    {Undefined, Array(<<>>)}
        \cup {Array(loadHistory(history)[p]) : p \in DOMAIN loadHistory(history)}

\* calculateFrecency(timestamps) at the second the clock reads.
CalculateFrecency(timestamps) ==
    /\ scored' = [called |-> TRUE, timestamps |-> timestamps, time |-> clock,
                  score |-> calculateFrecency(timestamps, clock)]
    /\ ranked' = NoRanking
    /\ UNCHANGED <<moreVars, scanVars, parseVars, cacheVars, clock, history, launchLog,
                   config, got, run>>

FrecencyNext ==
    \/ \E to \in Edges : PassTime(to)
    \/ \E projectPath \in ProjectPaths : Launch(projectPath)
    \/ \E timestamps \in TimestampInputs : CalculateFrecency(timestamps)

SpecFrecency == Init /\ [][FrecencyNext]_vars

----------------------------------------------------------------------------
(* The ranking of projects by their launches *)

\* The seconds at which projects are ranked: the first, and one 30 days on.
RankingTimes == {0, BUCKETS[Len(BUCKETS)]}

\* The paths of the projects that are ranked: the projects that are
\* launched, and two that never are.
RankedPaths ==
    ProjectPaths \cup {<<"/", PartNames[2]>>, <<"/", PartNames[3]>>}

\* The last activities of the projects that are ranked. getStats yields no
\* Invalid Date: setCache, which it awaits before it returns parsed
\* statistics, throws on one, and getCached reads what setCache wrote.
RankedDates == {NullDate, DateOf(1), DateOf(2)}

\* The statistics of a project at a path, last active at a date.
RankedStats(path, date) ==
    [EmptyStats([name |-> getProjectName(path), path |-> path,
                 encodedPath |-> encodePath(path)])
        EXCEPT !.lastActivity = date]

\* The collections that are ranked: projects at different paths, in any
\* order.
RankedInputs ==
    UNION {{[i \in 1..n |-> RankedStats(paths[i], dates[i])] :
               paths \in {f \in [1..n -> RankedPaths] :
                             \A i, j \in 1..n : f[i] = f[j] => i = j},
               dates \in [1..n -> RankedDates]} :
           n \in 0..MaxRanked}

\* sortByFrecency(stats, getFrecencyScores()) at the second the clock reads.
\* The call changes nothing that it reads, so one call is taken between two
\* changes of the clock or of the launch history.
SortByFrecency(stats) ==
    /\ ~ranked.called
    /\ ranked' = [called |-> TRUE, stats |-> stats,
                  frecencyScores |-> getFrecencyScores(history, clock),
                  sorted |-> sortByFrecency(stats,
                                            getFrecencyScores(history, clock))]
    /\ scored' = NoScores
    /\ UNCHANGED <<moreVars, scanVars, parseVars, cacheVars, clock, history, launchLog,
                   config, got, run>>

RankingNext ==
    \/ \E to \in RankingTimes : PassTime(to)
    \/ \E projectPath \in ProjectPaths : Launch(projectPath)
    \/ \E stats \in RankedInputs : SortByFrecency(stats)

SpecRanking == Init /\ [][RankingNext]_vars

----------------------------------------------------------------------------
(* The summaries directory, the claude process and the clock *)

\* The last activities of the projects that are summarized. getStats yields
\* no Invalid Date (see RankedDates).
SummaryDates == {NullDate, DateOf(1)}

\* What the claude process writes at a time: a blank or a letter.
Chunks == {" ", "s"}

\* Time passes: a millisecond, or a millisecond less than the summaries'
\* maximum age. A call that awaits generateSummary is resumed by the timer
\* at the latest.
Elapse(ms) ==
    /\ \/ ms = 1 /\ (now - 1) % (SUMMARY_MAX_AGE_MS - 1) < MaxTicks
       \/ ms = SUMMARY_MAX_AGE_MS - 1 /\ (now - 1) \div (SUMMARY_MAX_AGE_MS - 1) < 1
    /\ summarized.phase = "generating"
         => now + ms < summarized.began + GENERATE_TIMEOUT_MS
    /\ now' = now + ms
    /\ UNCHANGED <<scanVars, parseVars, rootMtime, cacheFile, stored, loaded,
                   cleared, cliVars, summaryVars, notSummaryVars>>

\* getOrGenerateSummary(info) up to its await of generateSummary: it returns
\* the cached summary, or spawns the claude process.
GetOrGenerateSummary(projectPath, lastActivity) ==
    /\ summarized.phase # "generating"
    /\ LET cached == getCachedSummary(summaries, projectPath, lastActivity, now)
       IN  IF truthy(cached)
           THEN summarized' =
                  [NoSummary EXCEPT !.phase = "returned", !.path = projectPath,
                                    !.lastActivity = lastActivity,
                                    !.spawns = summarized.spawns,
                                    !.fromCache = TRUE, !.result = cached[1]]
           ELSE /\ summarized.spawns < MaxSpawns
                /\ summarized' =
                     [NoSummary EXCEPT !.phase = "generating", !.path = projectPath,
                                       !.lastActivity = lastActivity,
                                       !.spawns = summarized.spawns + 1,
                                       !.spawned = TRUE, !.began = now]
    /\ UNCHANGED <<coreVars, summaries, notSummaryVars>>

\* proc.stdout.on("data"): the output grows.
StdoutData(chunk) ==
    /\ summarized.spawned
    /\ ~summarized.closed
    /\ Len(summarized.output) < MaxOutput
    /\ summarized' = [summarized EXCEPT !.output = Append(@, chunk)]
    /\ UNCHANGED <<coreVars, summaries, notSummaryVars>>

\* proc.on("close")
ProcessClose ==
    /\ summarized.spawned
    /\ ~summarized.closed
    /\ LET settled == resolve(summarized, summaries,
                              closeText(summarized.output, summarized.path), now)
       IN  /\ summarized' = [settled.call EXCEPT !.closed = TRUE]
           /\ summaries' = settled.dir
    /\ UNCHANGED <<coreVars, notSummaryVars>>

\* proc.on("error"): the process could not be spawned, or not be killed.
ProcessError ==
    /\ summarized.spawned
    /\ ~summarized.errored
    /\ ~summarized.closed
    /\ LET settled == resolve(summarized, summaries, NotAvailableText, now)
       IN  /\ summarized' = [settled.call EXCEPT !.errored = TRUE]
           /\ summaries' = settled.dir
    /\ UNCHANGED <<coreVars, notSummaryVars>>

\* The timer fires, 30 seconds after the spawn or later.
Timeout ==
    /\ summarized.spawned
    /\ ~summarized.timedOut
    /\ LET time == IF now < summarized.began + GENERATE_TIMEOUT_MS
                   THEN summarized.began + GENERATE_TIMEOUT_MS ELSE now
           settled == resolve(summarized, summaries, TimedOutText, time)
       IN  /\ now' = time
           /\ summarized' = [settled.call EXCEPT !.timedOut = TRUE]
           /\ summaries' = settled.dir
    /\ UNCHANGED <<scanVars, parseVars, rootMtime, cacheFile, stored, loaded,
                   cleared, cliVars, notSummaryVars>>

\* A summary document is damaged on disk.
CorruptSummary(file) ==
    /\ summaries[file].kind = "data"
    /\ summarized.phase # "generating"
    /\ summaries' = [summaries EXCEPT ![file] = UnparseableDocument]
    /\ summarized' = [NoSummary EXCEPT !.spawns = summarized.spawns]
    /\ UNCHANGED <<coreVars, notSummaryVars>>

SummaryNext ==
    \/ \E ms \in {1, SUMMARY_MAX_AGE_MS - 1} : Elapse(ms)
    \/ \E projectPath \in SummaryPaths, lastActivity \in SummaryDates :
          GetOrGenerateSummary(projectPath, lastActivity)
    \/ \E chunk \in Chunks : StdoutData(chunk)
    \/ ProcessClose
    \/ ProcessError
    \/ Timeout
    \/ \E file \in DOMAIN summaries : CorruptSummary(file)

SpecSummary == Init /\ [][SummaryNext]_vars

----------------------------------------------------------------------------
(* The cost of a usage *)

\* The model identifiers a cost is asked for: the table's, one that is
\* nowhere, and two that Object.prototype has.
Models == {"opus-4", "sonnet-4", "haiku-4", "gpt-4", "constructor", "toString"}

\* The usages a cost is asked for.
PricedUsages ==
    [inputTokens : 0..MaxTokens, outputTokens : 0..MaxTokens,
     cacheCreationInputTokens : 0..MaxTokens, cacheReadInputTokens : 0..MaxTokens]

\* calculateCost(usage, model)
CalculateCost(usage, model) ==
    /\ costed' = [called |-> TRUE, usage |-> usage, model |-> model,
                  cost |-> calculateCost(usage, model)]
    /\ UNCHANGED <<coreVars, notCostVars>>

CostNext == \E usage \in PricedUsages, model \in Models : CalculateCost(usage, model)

SpecCost == Init /\ [][CostNext]_vars

----------------------------------------------------------------------------
(* Concurrent launches *)

\* The cclp processes that run at the same time.
Procs == {1, 2}

\* The launches begun so far: the finished ones and the ones in flight.
begun(state) ==
    Len(state.log) + Cardinality({p \in Procs : state.procs[p].pc # "idle"})

\* recordLaunch(projectPath) in process p, up to its push: loadHistory has
\* read history.json and Date.now() is taken. Invocations that are in flight
\* together overlap.
LoadHistory(p, projectPath) ==
    /\ launching.procs[p].pc = "idle"
    /\ begun(launching) < MaxLaunches + 1
    /\ \E passed \in {0, 1} :
        /\ clock' = clock + passed
        /\ launching' =
            [launching EXCEPT !.procs =
                [q \in Procs |->
                    IF q = p
                    THEN [pc |-> "loaded", path |-> projectPath,
                          document |-> history, time |-> clock',
                          overlapped |-> \E r \in Procs \ {p} :
                                            launching.procs[r].pc # "idle"]
                    ELSE IF launching.procs[q].pc # "idle"
                    THEN [launching.procs[q] EXCEPT !.overlapped = TRUE]
                    ELSE launching.procs[q]]]
    /\ UNCHANGED <<notLaunchVars, coreUnlessHistory, history>>

\* The rest of recordLaunch in process p: saveHistory writes the document
\* that was loaded, with the launch pushed.
SaveHistory(p) ==
    /\ launching.procs[p].pc = "loaded"
    /\ history' = recordLaunch(launching.procs[p].document,
                               launching.procs[p].path,
                               launching.procs[p].time)
    /\ launching' =
        [procs |-> [launching.procs EXCEPT ![p] = IdleLaunch],
         log |-> Append(launching.log,
                        [path |-> launching.procs[p].path,
                         time |-> launching.procs[p].time,
                         overlapped |-> launching.procs[p].overlapped])]
    /\ UNCHANGED <<notLaunchVars, coreUnlessHistory, clock>>

LaunchesNext ==
    \/ \E p \in Procs, projectPath \in ProjectPaths : LoadHistory(p, projectPath)
    \/ \E p \in Procs : SaveHistory(p)

SpecLaunches == Init /\ [][LaunchesNext]_vars

----------------------------------------------------------------------------
(* Concurrent getStats *)

\* What a step of getStats leaves alone, apart from the cache.
getUnchanged ==
    <<notGetVars, scanVars, parseVars, now, rootMtime, stored, cleared, cliVars>>

\* getStats(opts) in process p, up to the answer of getCached.
ConsultCache(p, opts) ==
    LET cached == getCached(cacheFile, now,
                            getProjectsDirMtime(rootExists, rootMtime))
        mine == getting.procs[p]
    IN  /\ mine.pc = "idle"
        /\ getting' =
            [getting EXCEPT !.procs[p] =
                IF opts.cache /\ cached.hit
                THEN [mine EXCEPT !.pc = "done", !.opts = opts,
                                  !.fromCache = TRUE, !.stats = cached.stats,
                                  !.served = getting.origin,
                                  !.fingerprint = cacheFile.projectsDirMtime]
                ELSE [mine EXCEPT !.pc = "missed", !.opts = opts]]
        /\ UNCHANGED <<getUnchanged, cacheFile, loaded>>

\* scanProjects and parseAllProjects in process p.
ScanAndParse(p) ==
    LET mine == getting.procs[p]
    IN  /\ mine.pc = "missed"
        /\ getting' =
            [getting EXCEPT !.procs[p] =
                [mine EXCEPT
                    !.pc = "scanned",
                    !.stats = parseAllProjects(
                                  scanProjects(rootExists, entries, fs),
                                  dirListable, files),
                    !.scanMtime = getProjectsDirMtime(rootExists, rootMtime)]]
        /\ UNCHANGED <<getUnchanged, cacheFile, loaded>>

\* setCache in process p, up to writeFile: the CacheData with Date.now()
\* and the scan root's mtime of this moment. serialize may throw.
BuildEnvelope(p) ==
    LET mine == getting.procs[p]
    IN  /\ mine.pc = "scanned"
        /\ getting' =
            [getting EXCEPT !.procs[p] =
                IF serializeThrows(mine.stats)
                THEN [mine EXCEPT !.pc = "done", !.threw = TRUE]
                ELSE [mine EXCEPT
                        !.pc = "built",
                        !.data = setCache(cacheFile, mine.stats, now,
                                     getProjectsDirMtime(rootExists, rootMtime))]]
        /\ UNCHANGED <<getUnchanged, cacheFile, loaded>>

\* writeFile in process p opens cache.json.
OpenCacheFile(p) ==
    LET mine == getting.procs[p]
    IN  /\ mine.pc = "built"
        /\ cacheFile' = openTruncating(cacheFile)
        /\ getting' = [getting EXCEPT !.procs[p].pc = "opened",
                                      !.size = 0, !.origin = NoOrigin]
        /\ loaded' = NoLoad
        /\ UNCHANGED getUnchanged

\* writeFile in process p writes its text, and getStats returns.
WriteCacheFile(p) ==
    LET mine == getting.procs[p]
        written == writeAtStart(cacheFile, getting.size, mine.data)
    IN  /\ mine.pc = "opened"
        /\ cacheFile' = written.file
        /\ getting' =
            [getting EXCEPT
                !.procs[p].pc = "done",
                !.size = written.size,
                !.origin = IF written.file = mine.data
                           THEN Origin(p, mine.scanMtime) ELSE NoOrigin,
                !.writes = Append(getting.writes, p)]
        /\ loaded' = NoLoad
        /\ UNCHANGED getUnchanged

GettingNext ==
    \/ \E path \in ProjectPaths : Mkdir(path, MaxScanDirs)
    \/ \E entry \in ProjectEntries : AddEntry(entry)
    \/ \E ms \in {1, CACHE_TTL_MS} : AdvanceClock(ms)
    \/ \E p \in Procs, cache \in BOOLEAN : ConsultCache(p, Opts(cache))
    \/ \E p \in Procs : ScanAndParse(p)
    \/ \E p \in Procs : BuildEnvelope(p)
    \/ \E p \in Procs : OpenCacheFile(p)
    \/ \E p \in Procs : WriteCacheFile(p)
    \/ GetCached

SpecGetting == Init /\ [][GettingNext]_vars

----------------------------------------------------------------------------
(* The projects parsed together *)

\* The projects handed to parseAllProjects: /a, /a/b and /b.
OtherProject ==
    [name |-> <<"b">>, path |-> <<"/", "a", "/", "b">>,
     encodedPath |-> <<"-", "a", "-", "b">>]
ThirdProject ==
    [name |-> <<"b">>, path |-> <<"/", "b">>, encodedPath |-> <<"-", "b">>]
ParsedProjects == <<SampleProject, OtherProject, ThirdProject>>

\* Their storage directories: one that cannot be listed, the sample
\* listings, and two record files of which the first cannot be read.
StorageDirs ==
    {StorageDir(FALSE, <<>>)}
    \cup {StorageDir(TRUE, l) : l \in SampleListings}
    \cup {StorageDir(TRUE,
            <<[jsonl |-> TRUE, readable |-> FALSE, lines |-> <<>>]>>
            \o OneFile(<<[json |-> TRUE, timestamp |-> IsoString(1000),
                          usage |-> SomeUsage]>>))}

\* A call of parseAllProjects(projects): projects.map calls parseProject
\* for every project, each up to its readdir.
ParseAllProjects(n, dirs) ==
    /\ parsing.phase = "none"
    /\ parsing' =
        [phase |-> "running",
         projects |-> SubSeq(ParsedProjects, 1, n),
         dirs |-> dirs,
         tasks |-> [i \in 1..n |-> startTask(ParsedProjects[i])],
         order |-> <<>>,
         result |-> <<>>]
    /\ UNCHANGED <<notParsingVars, coreVars>>

\* What a step of the i-th parseProject call leaves.
stepped(i, task) ==
    [parsing EXCEPT !.tasks[i] = task,
                    !.order = IF task.pc = "resolved" THEN Append(@, i) ELSE @]

\* The readdir of the i-th call answers.
Readdir(i) ==
    /\ parsing.phase = "running"
    /\ i \in 1..Len(parsing.tasks)
    /\ parsing.tasks[i].pc = "listing"
    /\ parsing' = stepped(i, afterReaddir(parsing.tasks[i], parsing.dirs[i]))
    /\ UNCHANGED <<notParsingVars, coreVars>>

\* A readFile of the i-th call answers.
ReadFile(i) ==
    /\ parsing.phase = "running"
    /\ i \in 1..Len(parsing.tasks)
    /\ parsing.tasks[i].pc = "reading"
    /\ parsing' = stepped(i, afterReadFile(parsing.tasks[i]))
    /\ UNCHANGED <<notParsingVars, coreVars>>

\* Every call has resolved: Promise.all resolves, parseAllProjects returns.
AllResolved ==
    /\ parsing.phase = "running"
    /\ \A i \in 1..Len(parsing.tasks) : parsing.tasks[i].pc = "resolved"
    /\ parsing' = [parsing EXCEPT
                     !.phase = "returned",
                     !.result = promiseAll(parsing.tasks, parsing.order)]
    /\ UNCHANGED <<notParsingVars, coreVars>>

ParseAllNext ==
    \/ \E n \in 0..MaxTasks : \E dirs \in [1..n -> StorageDirs] :
           ParseAllProjects(n, dirs)
    \/ \E i \in 1..MaxTasks : Readdir(i)
    \/ \E i \in 1..MaxTasks : ReadFile(i)
    \/ AllResolved

SpecParseAll == Init /\ [][ParseAllNext]_vars

----------------------------------------------------------------------------
(* The keys pressed in the prompt *)

\* The choice lists: values 1, 2, ... of which any may be disabled.
ChoiceLists ==
    UNION {[1..n -> {[value |-> v, disabled |-> d] :
                        v \in 1..MaxChoices, d \in BOOLEAN}] : n \in 0..MaxChoices}
PromptChoices ==
    {list \in ChoiceLists : \A i \in 1..Len(list) : list[i].value = i}

\* The keys of the keyboard that are pressed.
Pressed == {"j", "k", "up", "down", "g", "G", "enter", "escape", "ctrl-c", "x"}

\* A call of vimSelect({choices}).
VimSelect(choices) ==
    /\ select.phase = "none"
    /\ select' = [NoSelect EXCEPT !.phase = "open", !.choices = choices]
    /\ UNCHANGED <<notSelectVars, coreVars>>

\* A key is pressed while the prompt is on screen.
Keypress(pressed) ==
    /\ select.phase = "open"
    /\ Len(select.pressed) < MaxKeys
    /\ select' = [onKeypress(select, keypress(pressed))
                    EXCEPT !.pressed = Append(@, pressed)]
    /\ UNCHANGED <<notSelectVars, coreVars>>

SelectNext ==
    \/ \E choices \in PromptChoices : VimSelect(choices)
    \/ \E pressed \in Pressed : Keypress(pressed)

SpecSelect == Init /\ [][SelectNext]_vars

----------------------------------------------------------------------------
(* What a decoding is, stated without the search *)

\* The parts decodePath splits an entry name into.
PartsOf(encoded) == split(slice(encoded, 1, Len(encoded)), "-")

\* The ways to cut k parts into consecutive groups, each group joined by "-"
\* or, when it has several parts, by "_": sequences of [n, sep].
Choices(k) ==
    {[n |-> n, sep |-> sep] : n \in 1..k, sep \in {"-", "_"}}
        \ {[n |-> 1, sep |-> "_"]}

RECURSIVE Groupings(_)
Groupings(k) ==
    IF k = 0 THEN {<<>>}
    ELSE UNION {{<<c>> \o g : g \in Groupings(k - c.n)} : c \in Choices(k)}

\* The path a grouping of the parts spells.
RECURSIVE PathOfGrouping(_, _)
PathOfGrouping(parts, g) ==
    IF Len(g) = 0 THEN <<>>
    ELSE <<"/">> \o join(SubSeq(parts, 1, g[1].n), g[1].sep)
         \o PathOfGrouping(SubSeq(parts, g[1].n + 1, Len(parts)), Tail(g))

\* The groupings of the parts of encoded that spell a directory on disk.
ExistingGroupings(encoded, disk) ==
    {g \in Groupings(Len(PartsOf(encoded))) :
        PathOfGrouping(PartsOf(encoded), g) \in disk}

\* The first place where two groupings differ.
FirstDifference(g, h) ==
    CHOOSE i \in 1..Len(g) :
        /\ i <= Len(h)
        /\ g[i] # h[i]
        /\ \A j \in 1..(i - 1) : g[j] = h[j]

\* g takes the shorter segment where g and h first differ, or the same
\* segment joined by "-" where h joins it by "_".
ShorterFirst(g, h) ==
    /\ g # h
    /\ LET i == FirstDifference(g, h)
       IN  \/ g[i].n < h[i].n
           \/ g[i].n = h[i].n /\ g[i].sep = "-"

\* g takes the longer segment where g and h first differ, or the same
\* segment joined by "-" where h joins it by "_".
LongerFirst(g, h) ==
    /\ g # h
    /\ LET i == FirstDifference(g, h)
       IN  \/ g[i].n > h[i].n
           \/ g[i].n = h[i].n /\ g[i].sep = "-"

\* A path has a name with a literal hyphen in it.
HasHyphen(path) == \E i \in 1..Len(path) : path[i] = "-"

----------------------------------------------------------------------------
(* The decoder's claims *)

\* A decodePath call was made for the encoding of path, which is on disk.
DecodedFrom(path) ==
    /\ decoded.called
    /\ path \in fs
    /\ decoded.encoded = encodePath(path)

\* The grouping of the parts of its own encoding that spells path.
GroupingOf(path) ==
    CHOOSE g \in Groupings(Len(PartsOf(encodePath(path)))) :
        PathOfGrouping(PartsOf(encodePath(path)), g) = path

\* C2 as claimed: a path on disk with a literal hyphen in a name is what
\* decodePath returns for its encoding, whatever else is on disk.
C2_DecodeRecoversHyphenPath ==
    \A path \in fs :
        DecodedFrom(path) /\ HasHyphen(path) => decoded.result = path

\* C2 as amended: a path on disk with a literal hyphen in a name is what
\* decodePath returns for its encoding, on every disk that holds no other
\* grouping of the same parts that takes a shorter segment at the first step
\* where the two groupings differ.
C2_DecodeRecoversHyphenPathIfFirst ==
    \A path \in fs :
        (/\ DecodedFrom(path)
         /\ HasHyphen(path)
         /\ \A g \in ExistingGroupings(decoded.encoded, fs) :
                ~ShorterFirst(g, GroupingOf(path)))
        => decoded.result = path

\* C2's case: a hyphenated path was recovered although another grouping of
\* its parts is on disk too.
C2_Witness ==
    \E path \in fs :
        /\ DecodedFrom(path)
        /\ HasHyphen(path)
        /\ decoded.result = path
        /\ Cardinality(ExistingGroupings(decoded.encoded, fs)) > 1

\* C3 as claimed: of the groupings that spell a directory on disk, decodePath
\* returns the one that takes the longest segment at each step.
C3_LongestSegmentFirst ==
    decoded.called /\ ExistingGroupings(decoded.encoded, fs) # {} =>
        \E g \in ExistingGroupings(decoded.encoded, fs) :
            /\ decoded.result = PathOfGrouping(PartsOf(decoded.encoded), g)
            /\ \A h \in ExistingGroupings(decoded.encoded, fs) \ {g} :
                   LongerFirst(g, h)

\* C3 as amended: candidates are tried shortest to longest, so of the
\* groupings that spell a directory on disk, decodePath returns the one that
\* takes the shortest segment at each step ("-" before "_" for one segment).
C3_ShortestSegmentFirst ==
    decoded.called /\ ExistingGroupings(decoded.encoded, fs) # {} =>
        \E g \in ExistingGroupings(decoded.encoded, fs) :
            /\ decoded.result = PathOfGrouping(PartsOf(decoded.encoded), g)
            /\ \A h \in ExistingGroupings(decoded.encoded, fs) \ {g} :
                   ShorterFirst(g, h)

\* C3's case: several groupings are on disk and one of them was returned.
C3_Witness ==
    /\ decoded.called
    /\ Cardinality(ExistingGroupings(decoded.encoded, fs)) > 1
    /\ decoded.result # NULL

\* C4: a path on disk with no hyphen in any name is what decodePath returns
\* for its encoding, whatever else is on disk.
C4_DecodeRecoversPlainPath ==
    \A path \in fs :
        DecodedFrom(path) /\ ~HasHyphen(path) => decoded.result = path

\* C4's case: a plain path was recovered although another grouping of its
\* parts is on disk too.
C4_Witness ==
    \E path \in fs :
        /\ DecodedFrom(path)
        /\ ~HasHyphen(path)
        /\ decoded.result = path
        /\ Cardinality(ExistingGroupings(decoded.encoded, fs)) > 1

----------------------------------------------------------------------------
(* The scanner's claims *)

EncodedPathsOf(list) == {list[i].encodedPath : i \in 1..Len(list)}

\* The entries scanProjects has to report: not hidden, a directory, and with
\* a grouping of the parts of its name that spells a directory on disk.
Decodable(entry) ==
    /\ ~startsWith(entry.name, ".")
    /\ entry.kind = "dir"
    /\ ExistingGroupings(entry.name, fs) # {}

\* C5: every project scanProjects returns is a listed directory entry whose
\* path is on disk and is spelled by a grouping of all the parts of the
\* entry's name; an entry with no such grouping is not returned.
C5_ProjectsExistOnDisk ==
    projects.called =>
        /\ \A i \in 1..Len(projects.list) :
             /\ \E j \in 1..Len(entries) :
                  /\ entries[j].name = projects.list[i].encodedPath
                  /\ entries[j].kind = "dir"
             /\ projects.list[i].path \in fs
             /\ \E g \in ExistingGroupings(projects.list[i].encodedPath, fs) :
                  projects.list[i].path =
                      PathOfGrouping(PartsOf(projects.list[i].encodedPath), g)
        /\ \A j \in 1..Len(entries) :
             ExistingGroupings(entries[j].name, fs) = {}
                 => entries[j].name \notin EncodedPathsOf(projects.list)

\* C5's case: a scan returned a project and dropped a directory entry that
\* has no decoding.
C5_Witness ==
    /\ projects.called
    /\ Len(projects.list) > 0
    /\ \E j \in 1..Len(entries) :
         /\ entries[j].kind = "dir"
         /\ ~startsWith(entries[j].name, ".")
         /\ ExistingGroupings(entries[j].name, fs) = {}

\* C8 as claimed: a stat or decoding failure on one entry costs that entry
\* only; every directory entry that decodes is returned wherever it is listed.
C8_FailureAbsorbedPerEntry ==
    projects.called =>
        \A j \in 1..Len(entries) :
            Decodable(entries[j])
                => entries[j].name \in EncodedPathsOf(projects.list)

----------------------------------------------------------------------------
(* The parser's claims *)

\* The record files of a listing.
JsonlFiles(listing) == SelectSeq(listing, LAMBDA f : f.jsonl)

\* Every record file can be read.
AllReadable(listing) == \A i \in 1..Len(listing) : listing[i].readable

\* The lines of all files of a listing, in reading order.
RECURSIVE AllLines(_)
AllLines(listing) ==
    IF Len(listing) = 0 THEN <<>>
    ELSE listing[1].lines \o AllLines(Tail(listing))

\* The token totals and the activity bounds of a ProjectStats.
Totals(stats) ==
    [usage |-> stats.usage,
     firstActivity |-> stats.firstActivity,
     lastActivity |-> stats.lastActivity]

\* C6 as claimed: the token totals and the activity bounds that parseProject
\* yields are those it yields for the same lines in any other order, in one
\* file or split over several.
C6_OrderIndependent ==
    parsed.called /\ dirListable /\ AllReadable(JsonlFiles(files)) =>
        LET lines == AllLines(JsonlFiles(files))
        IN  \A perm \in Permutations(1..Len(lines)) :
                Totals(parseProject(SampleProject, TRUE,
                           OneFile([i \in 1..Len(lines) |-> lines[perm[i]]])))
                    = Totals(parsed.stats)

\* C7 as claimed: when the directory cannot be listed or one of its record
\* files cannot be read, parseProject returns the empty statistics.
C7_ReadFailureYieldsEmpty ==
    parsed.called
    /\ (~dirListable \/ ~AllReadable(JsonlFiles(files)))
    => parsed.stats = EmptyStats(SampleProject)

\* The listing with the lines that are not JSON removed from every file.
WithoutMalformed(listing) ==
    [i \in 1..Len(listing) |->
        [listing[i] EXCEPT !.lines = SelectSeq(@, LAMBDA l : l.json)]]

\* C9: parseProject yields what it yields for the same files without their
\* malformed lines, and its session count is the number of record files.
C9_MalformedLinesSkipped ==
    parsed.called =>
        /\ parsed.stats =
               parseProject(SampleProject, dirListable, WithoutMalformed(files))
        /\ dirListable => parsed.stats.sessions = Len(JsonlFiles(files))

\* C9's case: a record file holds a malformed line and, after it, a line
\* whose tokens were counted.
C9_Witness ==
    /\ parsed.called
    /\ \E i \in 1..Len(files) :
         /\ files[i].jsonl /\ files[i].readable
         /\ Len(files[i].lines) >= 2
         /\ ~files[i].lines[1].json
         /\ files[i].lines[2].json
         /\ files[i].lines[2].usage.present
    /\ parsed.stats.usage.outputTokens > 0
    /\ parsed.stats.sessions = Len(JsonlFiles(files))

----------------------------------------------------------------------------
(* The cache's claims *)

\* C1: getCached returns statistics only when cache.json holds an envelope
\* that is no older than the TTL and whose projectsDirMtime is the scan
\* root's current modification time (0 for a root that cannot be read), and
\* then they are the statistics the envelope holds; in every other case,
\* a missing or unparseable file included, it returns null.
C1_ServedOnlyIfFresh ==
    loaded.called =>
        /\ loaded.hit <=>
             /\ cacheFile.kind = "data"
             /\ now - cacheFile.timestamp <= CACHE_TTL_MS
             /\ cacheFile.projectsDirMtime = (IF rootExists THEN rootMtime ELSE 0)
        /\ loaded.hit => serialize(loaded.stats) = cacheFile.stats
        /\ ~loaded.hit => loaded.stats = <<>>

\* C1's case: an envelope exactly as old as the TTL was served, with
\* statistics in it.
C1_Witness ==
    /\ loaded.called
    /\ loaded.hit
    /\ now - cacheFile.timestamp = CACHE_TTL_MS
    /\ Len(loaded.stats) > 0

\* C10 as claimed: a getCached right after setCache(stats), with no time
\* elapsed and the scan root unchanged, returns a collection equal to stats.
C10_StoreThenLoad ==
    stored.called /\ loaded.called =>
        loaded.hit /\ loaded.stats = stored.stats

----------------------------------------------------------------------------
(* The claims on obtaining the statistics *)

\* A step that is a call of getStats.
GetStatsStep == got' # got /\ got'.called

\* C12: getStats reports fromCache exactly when it consulted getCached and
\* getCached had statistics, which are then the ones it returns, the cache
\* file staying as it is; on a miss that returns, the statistics are those
\* parsed for the scanned projects and the cache file is the envelope
\* setCache makes of them at that time, which reads back as them.
C12_FromCacheOrStored ==
    [][GetStatsStep =>
        LET currentMtime == getProjectsDirMtime(rootExists, rootMtime)
            cached == getCached(cacheFile, now, currentMtime)
            result == got'
        IN  /\ result.fromCache <=> (result.consulted /\ cached.hit)
            /\ result.fromCache =>
                  /\ result.stats = cached.stats
                  /\ cacheFile' = cacheFile
            /\ (~result.fromCache /\ ~result.threw) =>
                  /\ result.stats =
                        parseAllProjects(scanProjects(rootExists, entries, fs),
                                         dirListable, files)
                  /\ cacheFile' = CacheData(now, currentMtime,
                                            serialize(result.stats))
                  /\ deserialize(cacheFile'.stats) = result.stats]_vars

\* C12's case: a miss returned dated statistics and left them in the cache
\* file.
C12_Witness ==
    /\ got.called
    /\ ~got.fromCache
    /\ ~got.threw
    /\ Len(got.stats) > 0
    /\ got.stats[1].lastActivity.kind = "date"
    /\ cacheFile.kind = "data"
    /\ cacheFile.timestamp = now

----------------------------------------------------------------------------
(* The commands' claims *)

\* The commands that obtain the projects' statistics.
StatsCommands ==
    {"list", "list --all", "recent", "info", "open", "stats", "export",
     "archive", "unarchive", "picker"}

\* C13 as claimed: a command that obtains statistics and was given
\* --no-cache does not consult getCached and is not served from the cache.
C13_NoCacheNeverConsults ==
    (run.command \in StatsCommands /\ run.noCache) =>
        ~got.consulted /\ ~got.fromCache

\* The launches history.json holds for a path.
launchesOf(file, path) ==
    IF path \in DOMAIN loadHistory(file) THEN loadHistory(file)[path] ELSE <<>>

\* C17: history.json changes only in a step of open that found a match or
\* of the picker ended with enter on a choice; the step hands the same
\* project to launchClaude and appends the current time to its launches,
\* leaving the other projects' launches as they are.
C17_OnlyLaunchesWriteHistory ==
    [][history' # history =>
        /\ \/ run'.command = "open" /\ Len(fuzzyMatch(got'.stats, run'.name)) > 0
           \/ run'.command = "picker" /\ run'.key = "enter"
        /\ Len(run'.launched) = 1
        /\ run'.recorded = run'.launched
        /\ launchesOf(history', run'.launched[1])
             = Append(launchesOf(history, run'.launched[1]), clock)
        /\ \A p \in DOMAIN loadHistory(history) :
             p # run'.launched[1] => launchesOf(history', p) = launchesOf(history, p)]_vars

\* C17's case: the picker showed a project's info while history.json held
\* launches.
C17_Witness ==
    /\ run.command = "picker"
    /\ run.key = "i"
    /\ run.ending = "info"
    /\ history.kind = "data"

\* C18: a picker ended with escape or ctrl-c leaves history.json as it is,
\* hands nothing to recordLaunch and nothing to launchClaude.
C18_CancelLeavesNoTrace ==
    [][(run'.command = "picker" /\ run'.key = "escape") =>
        /\ history' = history
        /\ run'.recorded = <<>>
        /\ run'.launched = <<>>]_vars

\* C18's case: the picker was cancelled with projects on the screen and
\* launches in history.json.
C18_Witness ==
    /\ run.command = "picker"
    /\ run.key = "escape"
    /\ run.ending = "cancelled"
    /\ Len(run.shown) > 0
    /\ history.kind = "data"

\* No project's name holds the query, whatever the letters' case.
NoneMatches(stats, query) ==
    \A i \in 1..Len(stats) :
        ~includesString(toLowerCase(stats[i].project.name), toLowerCase(query))

\* C19: open with a name that no project's name holds ends with status 1,
\* leaves history.json as it is, hands nothing to recordLaunch and nothing
\* to launchClaude.
C19_NoMatchExitsOne ==
    [][(run'.command = "open" /\ ~got'.threw
            /\ NoneMatches(got'.stats, run'.name)) =>
        /\ run'.ending = "no match"
        /\ run'.status = 1
        /\ history' = history
        /\ run'.recorded = <<>>
        /\ run'.launched = <<>>]_vars

\* C19's case: open found no match among the projects, with launches in
\* history.json.
C19_Witness ==
    /\ run.command = "open"
    /\ run.ending = "no match"
    /\ Len(got.stats) > 0
    /\ history.kind = "data"

\* The archived list config.json holds.
archivedIn(file) == loadConfig(file).archived

\* C20: the archived list changes only by archive pushing a project that
\* is not in it and by unarchive removing the project it names, so it
\* never holds a project twice; and the picker, list without -a and recent
\* put no project of the list on the screen.
C20_ArchivedStayHidden ==
    /\ [](/\ \A i, j \in 1..Len(archivedIn(config)) :
                archivedIn(config)[i] = archivedIn(config)[j] => i = j
          /\ run.command \in {"picker", "list", "recent"} =>
                \A i \in 1..Len(run.shown) :
                    ~includes(archivedIn(config), run.shown[i]))
    /\ [][archivedIn(config') # archivedIn(config) =>
            /\ Len(run'.shown) = 1
            /\ \/ /\ run'.command = "archive"
                  /\ ~includes(archivedIn(config), run'.shown[1])
                  /\ archivedIn(config') = Append(archivedIn(config), run'.shown[1])
               \/ /\ run'.command = "unarchive"
                  /\ archivedIn(config')
                       = SelectSeq(archivedIn(config), LAMBDA p : p # run'.shown[1])]_vars

\* C20's case: the picker showed a project and left out an archived one.
C20_Witness ==
    /\ run.command = "picker"
    /\ Len(run.shown) > 0
    /\ Len(got.stats) > Len(run.shown)
    /\ \E i \in 1..Len(got.stats) :
          includes(archivedIn(config), got.stats[i].project.path)

\* The last n elements of a sequence, all of it when it is shorter.
lastOf(s, n) == IF Len(s) <= n THEN s ELSE SubSeq(s, Len(s) - n + 1, Len(s))

\* C14: after any sequence of recordLaunch calls a project's launches are
\* at most 100 and are the most recent ones in the order they were
\* recorded; a call appends the current time, growing the launches by one
\* while they are fewer than 100 and dropping only the oldest otherwise.
C14_KeepsMostRecentHundred ==
    /\ [](\A p \in ProjectPaths :
            /\ Len(launchesOf(history, p)) <= 100
            /\ launchesOf(history, p) = lastOf(timesIn(launchLog, p), 100))
    /\ [][\A p \in ProjectPaths :
            Len(timesIn(launchLog', p)) > Len(timesIn(launchLog, p)) =>
                launchesOf(history', p) =
                    IF Len(launchesOf(history, p)) < 100
                    THEN Append(launchesOf(history, p), clock)
                    ELSE Append(Tail(launchesOf(history, p)), clock)]_vars

\* C14's case: the busy project was launched more than 100 times and the
\* other project once in between.
C14_Witness ==
    /\ Len(timesIn(launchLog, BusyProject)) > 100
    /\ Len(launchesOf(history, BusyProject)) = 100
    /\ \E p \in ProjectPaths \ {BusyProject} :
          /\ Len(launchesOf(history, p)) = 1
          /\ launchesOf(history, p)[1] > 0
          /\ launchesOf(history, p)[1] < launchesOf(history, BusyProject)[1]

\* The weight of a timestamp by its age in seconds.
bandWeight(age) ==
    IF age < 3600 THEN 100
    ELSE IF age < 86400 THEN 70
    ELSE IF age < 604800 THEN 50
    ELSE IF age < 2592000 THEN 30
    ELSE 10

\* The sum of the weights of the first n timestamps.
RECURSIVE bandSum(_, _, _)
bandSum(items, n, time) ==
    IF n = 0 THEN 0
    ELSE bandSum(items, n - 1, time) + bandWeight(time - items[n])

\* C15: calculateFrecency is the sum over the timestamps of the weight of
\* the band the timestamp's age falls in (100 under an hour, 70 under a
\* day, 50 under 7 days, 30 under 30 days, 10 otherwise); an empty or
\* missing history scores 0, and the weights strictly decrease with the
\* band's age.
C15_SumOfBandWeights ==
    /\ scored.called =>
          /\ scored.score = bandSum(scored.timestamps.items,
                                    Len(scored.timestamps.items), scored.time)
          /\ (~scored.timestamps.defined \/ Len(scored.timestamps.items) = 0)
                => scored.score = 0
    /\ \A i \in 1..(Len(DECAY_WEIGHTS) - 1) : DECAY_WEIGHTS[i] > DECAY_WEIGHTS[i + 1]
    /\ Len(DECAY_WEIGHTS) = Len(BUCKETS) + 1

\* C15's case: two timestamps were scored, one exactly 30 days old and one
\* of this second.
C15_Witness ==
    /\ scored.called
    /\ Len(scored.timestamps.items) = 2
    /\ scored.time - scored.timestamps.items[1] = 2592000
    /\ scored.time - scored.timestamps.items[2] = 0
    /\ scored.score = 110

\* How often x occurs in a sequence.
occurrences(s, x) == Cardinality({i \in 1..Len(s) : s[i] = x})

\* The launches of a project that are of an age from youngest on and below
\* oldest, at the second the clock reads.
launchesAged(path, youngest, oldest) ==
    {i \in 1..Len(launchesOf(history, path)) :
        /\ clock - launchesOf(history, path)[i] >= youngest
        /\ clock - launchesOf(history, path)[i] < oldest}

\* C16: sortByFrecency returns a permutation of its input in descending
\* order of score, a missing score counting as 0; projects of equal score
\* are in descending order of lastActivity, those without one after those
\* with one; and a project with launches in the last hour comes before a
\* project with as many launches that are all 30 days old or older.
C16_RankedByScoreThenActivity ==
    ranked.called =>
        /\ Len(ranked.sorted) = Len(ranked.stats)
        /\ \A i \in 1..Len(ranked.stats) :
              occurrences(ranked.sorted, ranked.stats[i])
                = occurrences(ranked.stats, ranked.stats[i])
        /\ \A i, j \in 1..Len(ranked.sorted) :
              i < j =>
                LET a == ranked.sorted[i]
                    b == ranked.sorted[j]
                    scoreA == IF a.project.path \in DOMAIN ranked.frecencyScores
                              THEN ranked.frecencyScores[a.project.path] ELSE 0
                    scoreB == IF b.project.path \in DOMAIN ranked.frecencyScores
                              THEN ranked.frecencyScores[b.project.path] ELSE 0
                IN  /\ scoreA >= scoreB
                    /\ (scoreA = scoreB /\ b.lastActivity.kind = "date") =>
                          /\ a.lastActivity.kind = "date"
                          /\ a.lastActivity.t >= b.lastActivity.t
        /\ \A i, j \in 1..Len(ranked.sorted) :
              LET a == ranked.sorted[i].project.path
                  b == ranked.sorted[j].project.path
              IN  (/\ Len(launchesOf(history, a)) = Len(launchesOf(history, b))
                   /\ launchesAged(a, 0, 3600) # {}
                   /\ Cardinality(launchesAged(b, 2592000, 2592000 + clock + 1))
                        = Len(launchesOf(history, b)))
                  => i < j

\* C16's case: four projects were ranked. The first given was launched
\* once, 30 days ago; the second and the third were never launched, and of
\* them only the third has a lastActivity; the fourth was launched once,
\* within the last hour. They come out fourth, first, third, second.
C16_Witness ==
    /\ ranked.called
    /\ Len(ranked.stats) = 4
    /\ Len(launchesOf(history, ranked.stats[1].project.path)) = 1
    /\ launchesAged(ranked.stats[1].project.path, 2592000, 2592000 + 1) # {}
    /\ ranked.stats[2].project.path \notin DOMAIN ranked.frecencyScores
    /\ ranked.stats[2].lastActivity.kind = "null"
    /\ ranked.stats[3].project.path \notin DOMAIN ranked.frecencyScores
    /\ ranked.stats[3].lastActivity.kind = "date"
    /\ Len(launchesOf(history, ranked.stats[4].project.path)) = 1
    /\ launchesAged(ranked.stats[4].project.path, 0, 3600) # {}
    /\ ranked.sorted = <<ranked.stats[4], ranked.stats[1], ranked.stats[3],
                         ranked.stats[2]>>

----------------------------------------------------------------------------
(* The summaries' claims *)

\* The document a project's summary is kept in.
documentOf(dir, projectPath) == dir[getSummaryCachePath(projectPath)]

\* A document holds a summary captured less than 24 hours before the time,
\* together with the given lastActivity.
servable(document, lastActivity, time) ==
    /\ document.kind = "data"
    /\ time - document.timestamp < 86400000
    /\ document.lastActivity
         = (IF lastActivity.kind = "null" THEN EmptyString
            ELSE IsoString(lastActivity.t))

\* A step in which getOrGenerateSummary is called.
IsCall ==
    /\ summarized.phase # "generating"
    /\ summarized' # summarized
    /\ summarized'.phase # "none"
    /\ summarized'.resolves = 0

\* C21: a call of getOrGenerateSummary returns the stored summary exactly
\* when the document was captured less than 24 hours ago and carries the
\* project's current lastActivity; otherwise it generates a summary, and
\* when that is done the document is the new summary with the time and the
\* lastActivity of the save.
C21_ServedOnlyIfRecentAndUnchanged ==
    /\ [][IsCall =>
            /\ summarized'.fromCache
                 <=> servable(documentOf(summaries, summarized'.path),
                              summarized'.lastActivity, now)
            /\ summarized'.fromCache =>
                 /\ summarized'.phase = "returned"
                 /\ summarized'.result
                      = documentOf(summaries, summarized'.path).summary
                 /\ ~summarized'.spawned
            /\ ~summarized'.fromCache =>
                 summarized'.phase = "generating" /\ summarized'.spawned]_vars
    /\ [][(summarized.phase = "generating" /\ summarized'.phase = "returned") =>
            documentOf(summaries', summarized.path)
              = SummaryCache(now', activityString(summarized.lastActivity),
                             summarized'.result)]_vars

\* C21's case: a summary is served a millisecond before it is 24 hours old.
C21_Witness ==
    /\ summarized.phase = "returned"
    /\ summarized.fromCache
    /\ now - documentOf(summaries, summarized.path).timestamp = 86400000 - 1
    /\ summarized.lastActivity.kind = "date"

\* C27 as claimed: a summary that getOrGenerateSummary returns for a project
\* is the output of a claude process that ran for that project, or one of
\* the fixed strings, because no two paths share a document.
C27_SummaryIsOfItsProject ==
    summarized.phase = "returned" =>
        summarized.result.about \in {<<>>, summarized.path}

\* The events of the claude process and of the timer that have happened.
happened(call) ==
    (IF call.closed THEN {"close"} ELSE {})
        \cup (IF call.errored THEN {"error"} ELSE {})
        \cup (IF call.timedOut THEN {"timeout"} ELSE {})

\* C30: generateSummary's promise is settled once, by the first of close,
\* error and the timer, with the trimmed output or the fixed string of that
\* event; getOrGenerateSummary saves that string whichever it is, and a
\* later call less than 24 hours on with the same lastActivity returns the
\* saved string and spawns no process.
C30_FirstEventSettlesAndIsPersisted ==
    /\ [](/\ summarized.resolves <= 1
          /\ (summarized.spawned /\ happened(summarized) # {})
                => summarized.resolves = 1)
    /\ [][(summarized.phase = "generating" /\ summarized'.phase = "returned") =>
            /\ happened(summarized) = {}
            /\ summarized'.result =
                 (IF "close" \in happened(summarized')
                  THEN (IF Len(trim(summarized.output)) > 0
                        THEN OutputText(trim(summarized.output), summarized.path)
                        ELSE UnableText)
                  ELSE IF "error" \in happened(summarized')
                  THEN NotAvailableText
                  ELSE TimedOutText)
            /\ documentOf(summaries', summarized.path).summary = summarized'.result
            /\ documentOf(summaries', summarized.path).timestamp = now']_vars
    /\ [][(summarized.phase = "returned" /\ summarized'.phase = "returned"
             /\ happened(summarized') # happened(summarized)) =>
            /\ summarized'.result = summarized.result
            /\ summaries' = summaries]_vars
    /\ [][(IsCall /\ servable(documentOf(summaries, summarized'.path),
                              summarized'.lastActivity, now)) =>
            /\ summarized'.result = documentOf(summaries, summarized'.path).summary
            /\ summarized'.spawns = summarized.spawns
            /\ ~summarized'.spawned]_vars

\* C30's case: the timer settled the only summary that was generated, and a
\* later call was served the timeout's string from the document.
C30_Witness ==
    /\ summarized.phase = "returned"
    /\ summarized.fromCache
    /\ summarized.result = TimedOutText
    /\ summarized.spawns = 1
    /\ now > documentOf(summaries, summarized.path).timestamp

----------------------------------------------------------------------------
(* The pricing's claims *)

\* A usage with one more token in one of its counters.
oneMore(usage, counter) == [usage EXCEPT ![counter] = @ + 1]

\* a <= b on two numbers: false when either is NaN.
atMost(a, b) == ~a.nan /\ ~b.nan /\ a.value <= b.value

\* C24 as claimed: for every model identifier the cost is not negative and
\* does not decrease when one counter grows, a usage of four zeros costs
\* exactly 0, and an identifier that is not in the table costs what
\* sonnet-4 costs.
C24_MonotoneAndDefaulted ==
    costed.called =>
        /\ atMost(Number(0), costed.cost)
        /\ \A counter \in DOMAIN costed.usage :
             atMost(costed.cost,
                    calculateCost(oneMore(costed.usage, counter), costed.model))
        /\ (\A counter \in DOMAIN costed.usage : costed.usage[counter] = 0)
             => costed.cost = Number(0)
        /\ costed.model \notin {"opus-4", "sonnet-4", "haiku-4"}
             => costed.cost = calculateCost(costed.usage, "sonnet-4")

----------------------------------------------------------------------------
(* The decoder's search *)

\* The path spelled by the first k groups of a grouping of the parts.
PrefixPath(parts, g, k) ==
    LET taken == SubSeq(g, 1, k)
        used == IF k = 0 THEN 0
                ELSE LET RECURSIVE sum(_)
                         sum(i) == IF i = 0 THEN 0 ELSE taken[i].n + sum(i - 1)
                     IN  sum(k)
    IN  PathOfGrouping(SubSeq(parts, 1, used), taken)

\* The groupings of the parts of encoded of which every prefix path is a
\* directory on disk.
ValidGroupings(encoded, disk) ==
    {g \in Groupings(Len(PartsOf(encoded))) :
        \A k \in 1..Len(g) : PrefixPath(PartsOf(encoded), g, k) \in disk}

\* A first segment that is on disk and that no valid grouping begins with.
DeadEnds(encoded, disk) ==
    {c \in Choices(Len(PartsOf(encoded))) :
        /\ PrefixPath(PartsOf(encoded), <<c>>, 1) \in disk
        /\ \A g \in ValidGroupings(encoded, disk) : g[1] # c}

\* C28: decodePath returns null exactly when no grouping of the parts has
\* every prefix path on disk; otherwise it returns the path of such a
\* grouping, also when a segment tried earlier is on disk and leads nowhere.
\* Every call returns: end and idx only grow, up to the number of parts.
C28_CompleteBacktrackingSearch ==
    decoded.called =>
        /\ decoded.result = NULL <=> ValidGroupings(decoded.encoded, fs) = {}
        /\ decoded.result # NULL =>
              \E g \in ValidGroupings(decoded.encoded, fs) :
                  decoded.result = PathOfGrouping(PartsOf(decoded.encoded), g)

\* C28's case: a path was found although a shorter first segment is on disk
\* and leads to a dead end.
C28_Witness ==
    /\ decoded.called
    /\ decoded.result # NULL
    /\ \E c \in DeadEnds(decoded.encoded, fs) :
           \E g \in ValidGroupings(decoded.encoded, fs) :
               /\ decoded.result = PathOfGrouping(PartsOf(decoded.encoded), g)
               /\ c.n < g[1].n

----------------------------------------------------------------------------
(* The concurrent launches' claims *)

\* The launches the history holds for a path.
heldFor(file, path) ==
    IF path \in DOMAIN loadHistory(file) THEN loadHistory(file)[path] ELSE <<>>

\* The finished launches of a path that overlapped no other invocation.
alone(log, path) ==
    SelectSeq(log, LAMBDA launch : launch.path = path /\ ~launch.overlapped)

----------------------------------------------------------------------------
(* The claims on concurrent getStats *)

\* Both processes missed, re-aggregated and have written.
BothWrote ==
    /\ \A p \in Procs : getting.procs[p].pc = "done" /\ ~getting.procs[p].fromCache
    /\ Len(getting.writes) = 2

\* The process that wrote last.
lastWriter == getting.writes[Len(getting.writes)]

\* C22 as claimed: after two getStats invocations that both missed have both
\* stored, cache.json holds the whole envelope of the one that wrote last,
\* and a getCached that follows within the TTL and with the scan root's
\* mtime unchanged returns that writer's statistics.
C22_LastWriterWinsWhole ==
    BothWrote =>
        /\ cacheFile = getting.procs[lastWriter].data
        /\ (/\ loaded.called
            /\ now - getting.procs[lastWriter].data.timestamp <= CACHE_TTL_MS
            /\ getProjectsDirMtime(rootExists, rootMtime)
                 = getting.procs[lastWriter].data.projectsDirMtime)
           => /\ loaded.hit
              /\ loaded.stats = deserialize(getting.procs[lastWriter].data.stats)

\* C26 as claimed: the statistics of a hit were aggregated from a scan taken
\* while the scan root's mtime was the envelope's fingerprint.
C26_HitIsOfScanAtFingerprint ==
    /\ \A p \in Procs :
           getting.procs[p].pc = "done" /\ getting.procs[p].fromCache
               => getting.procs[p].served.scanMtime = getting.procs[p].fingerprint
    /\ loaded.called /\ loaded.hit
           => getting.origin.scanMtime = cacheFile.projectsDirMtime

----------------------------------------------------------------------------
(* The claims on parseAllProjects *)

\* C25: whatever order the parseProject calls resolve in, parseAllProjects
\* returns only after all of them have resolved, and element i of what it
\* returns is the statistics of projects[i], computed from the record files
\* of that project's own storage directory.
C25_SameCollectionInEveryOrder ==
    parsing.phase = "returned" =>
        /\ \A i \in 1..Len(parsing.tasks) : parsing.tasks[i].pc = "resolved"
        /\ Len(parsing.order) = Len(parsing.projects)
        /\ parsing.result =
             [i \in 1..Len(parsing.projects) |->
                 parseProject(parsing.projects[i], parsing.dirs[i].listable,
                              parsing.dirs[i].listing)]

\* C25's case: the second project's call resolved before the first's, their
\* statistics differ, and parseAllProjects has returned.
C25_Witness ==
    /\ parsing.phase = "returned"
    /\ Len(parsing.order) >= 2
    /\ parsing.order[1] = 2
    /\ parsing.result[1].usage # parsing.result[2].usage

----------------------------------------------------------------------------
(* The prompt's claims *)

\* The key pressed in this step.
pressedNow == select'.pressed[Len(select'.pressed)]

\* The index of the last selectable choice.
lastIndex == Len(selectableChoices(select.choices)) - 1

\* C29 as claimed: with a choice list that is not empty (one choice at
\* least can be selected) the active index stays within the selectable
\* choices; k and up at the first and j and down
\* at the last leave it, g sets it to the first and G to the last; enter
\* resolves with the active choice; and when the status is done a key
\* changes nothing.
C29_ActiveStaysAndKeysMove ==
    /\ [](select.phase = "open" /\ lastIndex >= 0
            => select.active \in 0..lastIndex)
    /\ [][(/\ select.phase = "open"
           /\ lastIndex >= 0
           /\ Len(select'.pressed) = Len(select.pressed) + 1)
          => IF select.status = "done"
             THEN [select' EXCEPT !.pressed = select.pressed] = select
             ELSE
               /\ (pressedNow \in {"k", "up"} /\ select.active = 0)
                    => select'.active = 0
               /\ (pressedNow \in {"j", "down"} /\ select.active = lastIndex)
                    => select'.active = lastIndex
               /\ pressedNow = "g" => select'.active = 0
               /\ pressedNow = "G" => select'.active = lastIndex
               /\ pressedNow = "enter"
                    => /\ select'.status = "done"
                       /\ select'.resolved =
                            <<selectableChoices(select.choices)
                                [select.active + 1].value>>]_vars

====
